---- MODULE Spec2Model ----
(***************************************************************************)
(* Shantha Motors server: the stock-movement ledger (StockMovement), the   *)
(* derived current-inventory snapshot (Stock) and the transfer approval    *)
(* workflow of routes/stocksRoutes.js; the webhook proxy of the forms      *)
(* routes; the auth middleware and the privileged-role guards; the user    *)
(* routes (register, password reset, admin create, update and delete).     *)
(*                                                                         *)
(* Strings are sequences of one-character strings, so that trimming,       *)
(* upper-casing and branch-key normalisation are computed, not assumed.    *)
(* The ledger is a sequence in createdAt order (a create appends).         *)
(***************************************************************************)
EXTENDS Integers, Sequences, FiniteSets, TLC

VARIABLES movements, stock, resp, patches,
          handlers,
          recentSerials, now, submissions,
          authCall,
          users, userSeq, userResp, userClock, issued, spent,
          remarks, remarkResp,
          announcements, annResp, annClock,
          gasCall,
          webhookCache, cachePending, cacheResp, cacheNow, forwardedAt,
          pendingResp,
          csvCall,
          reserved, reserveResp,
          reqCall,
          snapshotFault,
          normCall,
          resolvers, resolutions,
          currentResp,
          branchDocs, branchResp

\* the collections and the last response of the stock routes
stockVars == <<movements, stock, resp, patches>>

\* the POST / handlers in progress
raceVars == <<handlers>>

\* the webhook proxy: its map of recent serials, the clock, the submissions
hookVars == <<recentSerials, now, submissions>>

\* the request on its way through the auth middleware and a guard
authVars == <<authCall>>

\* the users collection, the ids given out, the last response of the user
\* routes, the clock, the reset tokens sent and the reset tokens used
userVars == <<users, userSeq, userResp, userClock, issued, spent>>

\* the remarks collection and the last response of the remark routes
remarkVars == <<remarks, remarkResp>>

\* the announcements in the order of their creation, the last response of the announcement routes and the clock, in days
annVars == <<announcements, annResp, annClock>>

\* the POST on its way through the stock proxy
gasVars == <<gasCall>>

\* the cache of GET forwards, the forwards waiting for the webhook, the last response, the clock, and the time of the last 2xx answer to a GET forward of each key
cacheVars == <<webhookCache, cachePending, cacheResp, cacheNow, forwardedAt>>

\* the last response of the listing of pending transfers
pendingVars == <<pendingResp>>

\* the request for the next serial and its answer
csvVars == <<csvCall>>

\* the serials the reserve routes answered, and their last response
reserveVars == <<reserved, reserveResp>>

\* the request on its way through a route handler, and what was sent back
answerVars == <<reqCall>>

\* whether the Stock write of the last request threw
faultVars == <<snapshotFault>>

\* two branch names and the keys computed from them
normVars == <<normCall>>

\* the admit and reject handlers in progress, and the resolutions answered with 200
resolveVars == <<resolvers, resolutions>>

\* the last response of the listing of the current stock
currentVars == <<currentResp>>

\* The branches: the stored Branch documents and the last answer of POST /api/branches
branchVars == <<branchDocs, branchResp>>

vars == <<movements, stock, resp, patches, handlers, recentSerials, now, submissions,
          authCall, users, userSeq, userResp, userClock, issued, spent,
          remarks, remarkResp,
          announcements, annResp, annClock,
          gasCall,
          webhookCache, cachePending, cacheResp, cacheNow, forwardedAt,
          pendingResp,
          csvCall,
          reserved, reserveResp,
          reqCall,
          snapshotFault,
          normCall,
          resolvers, resolutions,
          currentResp,
          branchDocs, branchResp>>

----------------------------------------------------------------------------
(* Bounds of the model *)

MaxMovements == 2
MaxPatches == 1
MaxNow == 3
MaxSubmissions == 3
MaxClock == 5
MaxUsers == 2
MaxUserClock == 3
MaxAnnouncements == 2
MaxAnnClock == 2
MaxInFlight == 2
MaxCacheClock == 3
MaxFill == 502
MaxCsvRows == 2
MaxReserved == 2
MaxNameLen == 2

----------------------------------------------------------------------------
(* Strings *)

Empty == <<>>

BrA == <<"A">>
BrB == <<"B">>
Brb == <<"b">>
BrBsp == <<"B", " ">>

ChX == <<"X">>
Chx == <<"x">>
ChY == <<"Y">>

Lower(c) ==
  CASE c = "A" -> "a"
    [] c = "B" -> "b"
    [] c = "M" -> "m"
    [] c = "X" -> "x"
    [] c = "Y" -> "y"
    [] OTHER -> c

Upper(c) ==
  CASE c = "a" -> "A"
    [] c = "b" -> "B"
    [] c = "x" -> "X"
    [] c = "y" -> "Y"
    [] OTHER -> c

IsLowerAlnum(c) == c \in {"a", "b", "x", "y", "0", "1"}

toLowerCase(s) == [i \in 1..Len(s) |-> Lower(s[i])]

toUpperCase(s) == [i \in 1..Len(s) |-> Upper(s[i])]

RECURSIVE trimStart(_)
trimStart(s) == IF s # <<>> /\ Head(s) = " " THEN trimStart(Tail(s)) ELSE s

RECURSIVE trimEnd(_)
trimEnd(s) ==
  IF s # <<>> /\ s[Len(s)] = " " THEN trimEnd(SubSeq(s, 1, Len(s) - 1)) ELSE s

trim(s) == trimEnd(trimStart(s))

\* an accented letter of the names, and the combining mark NFKD splits off
AAcute == "a with acute"
CombiningAcute == "combining acute"

\* s.normalize('NFKD'): an accented letter becomes the letter and its mark
RECURSIVE NFKD(_)
NFKD(s) ==
  IF s = <<>> THEN s
  ELSE (IF Head(s) = AAcute THEN <<"a", CombiningAcute>> ELSE <<Head(s)>>) \o NFKD(Tail(s))

\* faulty variant: the name is lower-cased and trimmed, its inner spacing and
\* punctuation stay
normalizeTrimmed(s) == toLowerCase(trim(s))

\* String(s || '').toLowerCase().normalize('NFKD').replace(/[^a-z0-9]/g, '')
normalize(s) == SelectSeq(NFKD(toLowerCase(s)), IsLowerAlnum)

\* the same function, as the StockMovement model defines it for its pre-save hook
normalizeKey(s) == SelectSeq(NFKD(toLowerCase(s)), IsLowerAlnum)

\* a || b on strings: the empty string is falsy
Or(a, b) == IF a # Empty THEN a ELSE b

----------------------------------------------------------------------------
(* Users *)

NoUser == "none"

Users == {"admin", "staffb", "staffNone"}

\* the stored User documents: role, populated primaryBranch name, populated
\* names of branches[]
UserDoc(u) ==
  CASE u = "admin" -> [role |-> "admin", primaryBranch |-> Empty, branches |-> <<>>]
    [] u = "staffb" -> [role |-> "staff", primaryBranch |-> Empty, branches |-> <<Brb>>]
    [] u = "staffNone" -> [role |-> "staff", primaryBranch |-> Empty, branches |-> <<>>]

getBranchNameForUser(u) ==
  LET user == UserDoc(u) IN
  IF user.primaryBranch # Empty THEN user.primaryBranch
  ELSE IF Len(user.branches) >= 1 /\ user.branches[1] # Empty THEN user.branches[1]
  ELSE Empty

StaffLike(u) == UserDoc(u).role \in {"staff", "mechanic", "employees"}

IsPriv(u) == UserDoc(u).role \in {"admin", "owner", "backend"}

----------------------------------------------------------------------------
(* The ledger *)

ActionEnum == {"add", "transfer", "return", "invoice"}

TransferStatuses == {"pending", "admitted", "rejected", "completed"}

\* index of the latest non-deleted movement of a chassis, 0 when there is none:
\* StockMovement.findOne({chassisNo, deleted: {$ne: true}}).sort({createdAt: -1})
LatestIdx(mv, ch) ==
  LET S == {i \in 1..Len(mv) : mv[i].chassisNo = ch /\ ~mv[i].deleted} IN
  IF S = {} THEN 0 ELSE CHOOSE i \in S : \A j \in S : j <= i

\* StockMovement.findOne({chassisNo, action:'transfer', transferStatus:'pending',
\*                        deleted: {$ne: true}})
PendingTransfers(mv, ch) ==
  {i \in 1..Len(mv) : /\ mv[i].chassisNo = ch
                      /\ mv[i].action = "transfer"
                      /\ mv[i].transferStatus = "pending"
                      /\ ~mv[i].deleted}

\* faulty variant: an admitted transfer does not count as arrived
transferAdmittedOnlyCompleted(m) == m.transferStatus = "completed"

\* faulty variant: every resolved transfer counts as arrived, rejected too
transferAdmittedWhenResolved(m) == m.transferStatus # "pending"

\* String(m.transferStatus || 'completed') is 'admitted' or 'completed'
transferAdmitted(m) == m.transferStatus \in {"admitted", "completed"}

deriveCurrentBranch(m) ==
  CASE m.action = "add" -> m.sourceBranch
    [] m.action = "transfer" ->
         IF ~transferAdmitted(m) THEN m.sourceBranch ELSE m.targetBranch
    [] OTHER -> Empty

----------------------------------------------------------------------------
(* The snapshot: a set of Stock documents *)

StockOf(st, ch) == {d \in st : d.chassisNo = ch}

\* Stock.findOneAndUpdate({chassisNo}, {$set: update}, {upsert: true, new: true}):
\* the named fields of the matching document are overwritten; with no match a
\* document is inserted (status defaults to in_stock, the other fields have no
\* default). The pre-save hook does not run, so sourceBranchKey is never set.
Upsert(st, ch, update) ==
  LET hit == StockOf(st, ch)
      fresh == [chassisNo |-> ch, sourceBranch |-> Empty, sourceBranchKey |-> Empty,
                status |-> "in_stock", lastMovementId |-> 0]
      set(d) == [f \in DOMAIN d |-> IF f \in DOMAIN update THEN update[f] ELSE d[f]]
  IN IF hit = {} THEN st \cup {set(fresh)}
     ELSE LET d == CHOOSE x \in hit : TRUE IN (st \ {d}) \cup {set(d)}

\* faulty variant: a transfer relocates the snapshot as soon as it is stored
nextBranchAtOnce(m, existingBranch) == Or(m.targetBranch, existingBranch)

\* the branch a transfer leaves the snapshot at; existingBranch is the
\* sourceBranch of the chassis's Stock document, empty when there is none
nextBranch(m, existingBranch) ==
  LET prevBranch == Or(existingBranch, m.sourceBranch)
      stayBranch == Or(m.sourceBranch, prevBranch)
  IN IF transferAdmitted(m) THEN Or(m.targetBranch, existingBranch) ELSE stayBranch

\* (the vehicle fields company/model/variant/color and lastSourceBranch, which
\* the routes write and never read back, are left out of the documents)
applyMovementToStock(st, m) ==
  LET chassisNo == toUpperCase(trim(m.chassisNo)) IN
  IF chassisNo = Empty THEN st
  ELSE CASE m.action = "add" ->
              Upsert(st, chassisNo, [sourceBranch |-> m.sourceBranch,
                                     status |-> "in_stock",
                                     lastMovementId |-> m.movementId])
         [] m.action = "transfer" ->
              LET hit == StockOf(st, chassisNo)
                  existingBranch == IF hit = {} THEN Empty
                                    ELSE (CHOOSE x \in hit : TRUE).sourceBranch
              IN Upsert(st, chassisNo, [sourceBranch |-> nextBranch(m, existingBranch),
                                        status |-> "in_stock",
                                        lastMovementId |-> m.movementId])
         [] m.action \in {"return", "invoice"} ->
              Upsert(st, chassisNo, [status |-> "out",
                                     sourceBranch |-> Empty,
                                     lastMovementId |-> m.movementId])
         [] OTHER -> st

recomputeStockForChassis(st, mv, chassisNo) ==
  LET ch == toUpperCase(trim(chassisNo))
      latest == LatestIdx(mv, ch)
  IN IF ch = Empty THEN st
     ELSE IF latest = 0 THEN st \ StockOf(st, ch)
     ELSE applyMovementToStock(st, mv[latest])

----------------------------------------------------------------------------
(* Requests *)

\* the last response: route, status code and the movementId it answers about
\* (the created id for POST /, the :id parameter elsewhere, 0 when none)
NoResp == [op |-> "none", code |-> 0, id |-> 0]

Response(op, code, id) == [op |-> op, code |-> code, id |-> id]

\* the next unused movementId (uuidv4() in the code)
NextId(mv) == Len(mv) + 1

\* StockMovement.findOne({movementId: id, deleted: {$ne: true}})
FindLive(mv, id) == {i \in 1..Len(mv) : mv[i].movementId = id /\ ~mv[i].deleted}

\* StockMovement.findOne({movementId: id}): deleted movements match too
FindAny(mv, id) == {i \in 1..Len(mv) : mv[i].movementId = id}

\* stockMovementSchema.pre('save'): both keys are rewritten on every save
preSave(m) == [m EXCEPT !.sourceBranchKey = normalizeKey(m.sourceBranch),
                        !.targetBranchKey = normalizeKey(m.targetBranch)]

\* faulty variant: the add is never rewritten from the ledger's current branch
addStaysAdd(action, currentBranch, desiredDest) == FALSE

\* POST /: an add of a chassis whose current branch is another one becomes a
\* transfer
addBecomesTransfer(action, currentBranch, desiredDest) ==
  /\ action = "add" /\ currentBranch # Empty
  /\ desiredDest # Empty /\ desiredDest # currentBranch

\* faulty variant: the duplicate-add lookup finds nothing
existingStockNotLooked(st, chassisNo) == {}

\* POST /: Stock.findOne({chassisNo, status: 'in_stock'})
existingStock(st, chassisNo) == {d \in StockOf(st, chassisNo) : d.status = "in_stock"}

\* POST /: the pending transfer that blocks a new one
existingPending(mv, chassisNo) == PendingTransfers(mv, chassisNo)

\* faulty variant: the submitted source branch wins for every caller
payloadSourceBranchSubmitted(staffLike, userBranch, submitted) ==
  Or(submitted, userBranch)

\* POST /: payload.sourceBranch as the payload is built
payloadSourceBranch(staffLike, userBranch, submitted) ==
  IF staffLike THEN Or(userBranch, Empty) ELSE Or(submitted, Or(userBranch, Empty))

\* POST /: the status code and, for 201, the document handed to
\* StockMovement.create. body = [chassisNo, action, sourceBranch, targetBranch].
CreateOutcome(mv, st, u, body) ==
  LET staffLike == StaffLike(u)
      userBranch == getBranchNameForUser(u)
      chassisNo == toUpperCase(trim(body.chassisNo))
      action0 == IF body.action = "" THEN "transfer" ELSE body.action
      source0 == trim(payloadSourceBranch(staffLike, userBranch, body.sourceBranch))
      target0 == trim(body.targetBranch)
      last == LatestIdx(mv, chassisNo)
      currentBranch == IF last = 0 THEN Empty ELSE deriveCurrentBranch(mv[last])
      \* add of a chassis that already has a current branch elsewhere
      desiredDest == Or(source0, userBranch)
      conv1 == addBecomesTransfer(action0, currentBranch, desiredDest)
      action1 == IF conv1 THEN "transfer" ELSE action0
      source1 == IF conv1 THEN currentBranch ELSE source0
      target1 == IF conv1 THEN desiredDest ELSE target0
      \* add: the in-stock snapshot decides between conversion and 409
      inStock == existingStock(st, chassisNo)
      existingBranch == IF inStock = {} THEN Empty
                        ELSE (CHOOSE d \in inStock : TRUE).sourceBranch
      conv2 == /\ action1 = "add" /\ inStock # {}
               /\ existingBranch # Empty /\ existingBranch # source1
      action2 == IF conv2 THEN "transfer" ELSE action1
      source2 == IF conv2 THEN existingBranch ELSE source1
      target2 == IF conv2 THEN Or(trim(target1), userBranch) ELSE target1
      \* transfer: the ledger's current branch is the source
      source3 == IF action2 = "transfer" /\ currentBranch # Empty
                    /\ source2 # currentBranch
                 THEN currentBranch ELSE source2
      doc == preSave(
               [movementId |-> NextId(mv),
                chassisNo |-> chassisNo,
                action |-> action2,
                sourceBranch |-> source3,
                targetBranch |-> target2,
                transferStatus |-> IF action2 = "transfer" THEN "pending"
                                   ELSE "completed",
                sourceBranchKey |-> Empty,
                targetBranchKey |-> Empty,
                resolvedBy |-> NoUser,
                autoNote |-> conv1 \/ conv2,
                deleted |-> FALSE])
      code ==
        IF chassisNo = Empty THEN 400
        ELSE IF action1 = "add" /\ source1 = Empty THEN 400
        ELSE IF conv2 /\ target2 = Empty THEN 400
        ELSE IF action1 = "add" /\ inStock # {} /\ ~conv2 THEN 409
        ELSE IF action2 = "transfer" /\ target2 = Empty THEN 400
        ELSE IF action2 = "transfer" /\ source3 # Empty /\ source3 = target2 THEN 400
        ELSE IF action2 = "transfer" /\ existingPending(mv, chassisNo) # {} THEN 409
        ELSE 201
  IN [code |-> code, doc |-> doc]

Create(u, body) ==
  LET out == CreateOutcome(movements, stock, u, body) IN
  IF out.code = 201
  THEN /\ Len(movements) < MaxMovements
       /\ movements' = Append(movements, out.doc)
       /\ stock' = applyMovementToStock(stock, out.doc)
       /\ resp' = Response("create", 201, out.doc.movementId)
       /\ UNCHANGED patches
  ELSE /\ resp' = Response("create", out.code, 0)
       /\ UNCHANGED <<movements, stock, patches>>

\* faulty variant: the caller's branch is compared with the transfer's source
mayResolveBySource(u, m) ==
  LET sourceKey == normalize(m.sourceBranch)
      userBranchKey == normalize(getBranchNameForUser(u))
  IN IsPriv(u) \/ (userBranchKey # Empty /\ userBranchKey = sourceKey)

\* POST /:id/admit, /:id/reject: the caller may resolve transfer m
mayResolve(u, m) ==
  LET targetKey == normalize(m.targetBranch)
      userBranchKey == normalize(getBranchNameForUser(u))
  IN IsPriv(u) \/ (userBranchKey # Empty /\ userBranchKey = targetKey)

\* faulty variant: admit does not look at transferStatus
AdmitCodeAnyStatus(mv, u, id) ==
  LET hit == FindLive(mv, id)
      m == mv[CHOOSE i \in hit : TRUE]
  IN IF hit = {} \/ m.action # "transfer" THEN 404
     ELSE IF ~mayResolve(u, m) THEN 403
     ELSE 200

\* POST /:id/admit: the status code
AdmitCode(mv, u, id) ==
  LET hit == FindLive(mv, id)
      m == mv[CHOOSE i \in hit : TRUE]
  IN IF hit = {} \/ m.action # "transfer" THEN 404
     ELSE IF m.transferStatus # "pending" THEN 400
     ELSE IF ~mayResolve(u, m) THEN 403
     ELSE 200

Admit(u, id) ==
  LET code == AdmitCode(movements, u, id) IN
  IF code = 200
  THEN LET i == CHOOSE i \in FindLive(movements, id) : TRUE
           m == preSave([movements[i] EXCEPT !.transferStatus = "admitted",
                                             !.resolvedBy = u])
       IN /\ movements' = [movements EXCEPT ![i] = m]
          /\ stock' = applyMovementToStock(stock, m)
          /\ resp' = Response("admit", 200, id)
          /\ UNCHANGED patches
  ELSE /\ resp' = Response("admit", code, id)
       /\ UNCHANGED <<movements, stock, patches>>

\* POST /:id/reject: the status code
RejectCode(mv, u, id) ==
  LET hit == FindLive(mv, id)
      m == mv[CHOOSE i \in hit : TRUE]
  IN IF hit = {} \/ m.action # "transfer" THEN 404
     ELSE IF m.transferStatus # "pending" THEN 400
     ELSE IF ~mayResolve(u, m) THEN 403
     ELSE 200

Reject(u, id) ==
  LET code == RejectCode(movements, u, id) IN
  IF code = 200
  THEN LET i == CHOOSE i \in FindLive(movements, id) : TRUE
           m == preSave([movements[i] EXCEPT !.transferStatus = "rejected",
                                             !.resolvedBy = u])
       IN /\ movements' = [movements EXCEPT ![i] = m]
          /\ stock' = applyMovementToStock(stock, m)
          /\ resp' = Response("reject", 200, id)
          /\ UNCHANGED patches
  ELSE /\ resp' = Response("reject", code, id)
       /\ UNCHANGED <<movements, stock, patches>>

\* requireAdminOwner: the status it answers with, 0 when it calls next()
requireAdminOwner(u) == IF IsPriv(u) THEN 0 ELSE 403

\* findOneAndUpdate({movementId: id}, patch): the submitted fields are set (a
\* field the body leaves out is not in the patch's domain); a branch key is
\* rewritten only when its branch value is truthy
applyPatch(m, patch) ==
  LET has(f) == f \in DOMAIN patch
      set(f) == IF has(f) THEN patch[f] ELSE m[f]
  IN [m EXCEPT !.chassisNo = set("chassisNo"),
               !.action = set("action"),
               !.sourceBranch = set("sourceBranch"),
               !.targetBranch = set("targetBranch"),
               !.transferStatus = set("transferStatus"),
               !.sourceBranchKey =
                  IF has("sourceBranch") /\ patch.sourceBranch # Empty
                  THEN normalize(patch.sourceBranch) ELSE m.sourceBranchKey,
               !.targetBranchKey =
                  IF has("targetBranch") /\ patch.targetBranch # Empty
                  THEN normalize(patch.targetBranch) ELSE m.targetBranchKey]

Patch(u, id, patch) ==
  LET guard == requireAdminOwner(u)
      hit == FindAny(movements, id)
  IN IF guard # 0
     THEN /\ resp' = Response("patch", guard, id)
          /\ UNCHANGED <<movements, stock, patches>>
     ELSE IF hit = {}
     THEN /\ resp' = Response("patch", 404, id)
          /\ UNCHANGED <<movements, stock, patches>>
     ELSE LET i == CHOOSE i \in hit : TRUE
              updated == applyPatch(movements[i], patch)
              mv == [movements EXCEPT ![i] = updated]
          IN /\ patches < MaxPatches
             /\ patches' = patches + 1
             /\ movements' = mv
             /\ stock' = recomputeStockForChassis(stock, mv, updated.chassisNo)
             /\ resp' = Response("patch", 200, id)

Delete(u, id) ==
  LET guard == requireAdminOwner(u)
      hit == FindAny(movements, id)
  IN IF guard # 0
     THEN /\ resp' = Response("delete", guard, id)
          /\ UNCHANGED <<movements, stock, patches>>
     ELSE IF hit = {}
     THEN /\ resp' = Response("delete", 404, id)
          /\ UNCHANGED <<movements, stock, patches>>
     ELSE LET i == CHOOSE i \in hit : TRUE
              updated == [movements[i] EXCEPT !.deleted = TRUE]
              mv == [movements EXCEPT ![i] = updated]
          IN /\ movements' = mv
             /\ stock' = recomputeStockForChassis(stock, mv, updated.chassisNo)
             /\ resp' = Response("delete", 200, id)
             /\ UNCHANGED patches

----------------------------------------------------------------------------
(* POST / as the handler runs it: the awaits between its reads and writes *)

\* the POST / handlers that run at the same time
Handlers == {1, 2}

\* a handler between requests
IdleHandler == [pc |-> "idle", payload |-> {}]

\* faulty variant: the insert is refused when the chassis has a pending
\* transfer by then (as a unique index on pending transfers would)
createRefusedWhenPending(mv, doc) ==
  doc.action = "transfer" /\ PendingTransfers(mv, doc.chassisNo) # {}

\* StockMovement.create(payload): the schema has no index that refuses a
\* second pending transfer of a chassis, so the insert is never refused
createRefused(mv, doc) == FALSE

\* lines 380-490: the handler reads the caller, the latest movement, the
\* in-stock snapshot and the pending transfer, and answers at once when it
\* refuses the request; otherwise it holds the payload it is going to insert
RaceCheck(h, u, body) ==
  LET out == CreateOutcome(movements, stock, u, body) IN
  /\ handlers[h].pc = "idle"
  /\ IF out.code = 201
     THEN /\ Len(movements) + Cardinality({g \in Handlers : handlers[g].pc = "checked"})
               < MaxMovements
          /\ handlers' = [handlers EXCEPT ![h] = [pc |-> "checked", payload |-> {out.doc}]]
          /\ UNCHANGED <<movements, stock, resp, patches>>
     ELSE /\ resp' = Response("create", out.code, 0)
          /\ UNCHANGED <<movements, stock, patches, handlers>>

\* line 492: StockMovement.create(payload); the movement gets its place in
\* createdAt order now
RaceInsert(h) ==
  /\ handlers[h].pc = "checked"
  /\ LET doc == CHOOSE d \in handlers[h].payload : TRUE
         created == [doc EXCEPT !.movementId = NextId(movements)]
     IN IF createRefused(movements, created)
        THEN /\ handlers' = [handlers EXCEPT ![h] = IdleHandler]
             /\ resp' = Response("create", 500, 0)
             /\ UNCHANGED <<movements, stock, patches>>
        ELSE /\ movements' = Append(movements, created)
             /\ handlers' = [handlers EXCEPT ![h] = [pc |-> "created", payload |-> {created}]]
             /\ UNCHANGED <<stock, resp, patches>>

\* lines 494-495: applyMovementToStock(created), then the 201
RaceApply(h) ==
  /\ handlers[h].pc = "created"
  /\ LET created == CHOOSE d \in handlers[h].payload : TRUE
     IN /\ stock' = applyMovementToStock(stock, created)
        /\ resp' = Response("create", 201, created.movementId)
  /\ handlers' = [handlers EXCEPT ![h] = IdleHandler]
  /\ UNCHANGED <<movements, patches>>

----------------------------------------------------------------------------
(* The webhook proxy: POST /booking/webhook and POST /jobcard/webhook *)

\* Time is counted in ticks of five minutes: the 10 * 60 * 1000 ms are 2 ticks.
IDEMPOTENCY_TTL_MS == 2

Serials == {"Q1", "J1"}

\* the payloads explored: the four places a serial is looked for, each absent
\* ("") or holding a serial
Payloads ==
  {[dataSerialNo |-> "", serialNo |-> "", formValuesSerialNo |-> "",
    payloadFormValuesSerialNo |-> ""]}
  \cup {[dataSerialNo |-> s, serialNo |-> "", formValuesSerialNo |-> "",
         payloadFormValuesSerialNo |-> ""] : s \in Serials}
  \cup {[dataSerialNo |-> "", serialNo |-> "Q1", formValuesSerialNo |-> "J1",
         payloadFormValuesSerialNo |-> ""],
        [dataSerialNo |-> "", serialNo |-> "", formValuesSerialNo |-> "",
         payloadFormValuesSerialNo |-> "J1"]}

\* extractSerial: the first place that holds one; "" stands for null
extractSerial(obj) ==
  IF obj.dataSerialNo # "" THEN obj.dataSerialNo
  ELSE IF obj.serialNo # "" THEN obj.serialNo
  ELSE IF obj.formValuesSerialNo # "" THEN obj.formValuesSerialNo
  ELSE IF obj.payloadFormValuesSerialNo # "" THEN obj.payloadFormValuesSerialNo
  ELSE ""

\* recentSerials maps a key to the time it was marked; the keys never marked
\* are not in its domain
isDuplicateSerial(recent, key, t) ==
  /\ key # ""
  /\ key \in DOMAIN recent
  /\ t - recent[key] < IDEMPOTENCY_TTL_MS

\* markSerial (the pruning beyond 2000 entries removes only entries older than
\* the TTL, which isDuplicateSerial does not count anyway)
markSerial(recent, key, t) ==
  IF key = "" THEN recent
  ELSE [k \in DOMAIN recent \cup {key} |-> IF k = key THEN t ELSE recent[k]]

\* A submission arrives at one of the two routes: without webhookUrl it is
\* answered 400; with a serial seen within the TTL it is answered "duplicate
\* suppressed"; otherwise the call to the external webhook is made and the
\* handler waits for its answer. (With method GET a cached answer could stand
\* in for the call; such an answer is cached when the serial is marked, so a
\* request with a serial never gets that far. GET is left out.)
HookSubmit(route, webhookUrl, payload) ==
  LET serialKey == extractSerial(payload)
      outcome == IF ~webhookUrl THEN "400"
                 ELSE IF serialKey # "" /\ isDuplicateSerial(recentSerials, serialKey, now)
                 THEN "suppressed"
                 ELSE "forwarding"
  IN /\ Len(submissions) < MaxSubmissions
     /\ submissions' = Append(submissions,
                              [route |-> route, serial |-> serialKey, at |-> now,
                               outcome |-> outcome])
     /\ UNCHANGED <<recentSerials, now>>

\* faulty variant: the serial is marked whatever the webhook answered
HookAnswerMarksAlways(i, ok) ==
  /\ i \in DOMAIN submissions
  /\ submissions[i].outcome = "forwarding"
  /\ submissions' = [submissions EXCEPT ![i].outcome = IF ok THEN "forwarded" ELSE "502"]
  /\ recentSerials' = markSerial(recentSerials, submissions[i].serial, now)
  /\ UNCHANGED now

\* the external webhook answers a call: on a 2xx status the serial is marked
\* and the submission answered "forwarded", otherwise it is answered 502
HookAnswer(i, ok) ==
  /\ i \in DOMAIN submissions
  /\ submissions[i].outcome = "forwarding"
  /\ submissions' = [submissions EXCEPT ![i].outcome = IF ok THEN "forwarded" ELSE "502"]
  /\ recentSerials' = IF ok THEN markSerial(recentSerials, submissions[i].serial, now)
                      ELSE recentSerials
  /\ UNCHANGED now

\* five minutes pass
HookTick ==
  /\ now < MaxNow
  /\ now' = now + 1
  /\ UNCHANGED <<recentSerials, submissions>>

----------------------------------------------------------------------------
(* Authentication middleware and the privileged-role guards *)

\* /^[0-9a-fA-F]{24}$/
ObjectIdLen == 24

HexDigits == {"0", "1", "2", "3", "4", "5", "6", "7", "8", "9",
              "a", "b", "c", "d", "e", "f", "A", "B", "C", "D", "E", "F"}

isObjectId(s) == Len(s) = ObjectIdLen /\ \A i \in 1..Len(s) : s[i] \in HexDigits

IdOf(c) == [i \in 1..ObjectIdLen |-> c]

\* the ids a token may carry: a stored user, a user that is not stored, a
\* string that is no identifier, and no userId at all (undefined)
IdU1 == IdOf("a")
IdGhost == IdOf("b")
IdBad == <<"x", "y">>
NoId == Empty

\* the clock counts half seconds; jwt's iat is in whole seconds
TicksPerSecond == 2

NoCutoff == 0 - 1

DEFAULT_SECRET == "shantha_motors"

\* jwt.sign({ userId }, key, { expiresIn }): iat = floor(Date.now() / 1000)
jwtSign(userId, key, at, stamped, expired) ==
  [userId |-> userId, sig |-> key,
   iat |-> IF stamped THEN at \div TicksPerSecond ELSE NoCutoff,
   stamped |-> stamped, issuedAt |-> at, expired |-> expired]

NoToken ==
  [userId |-> NoId, sig |-> "", iat |-> NoCutoff, stamped |-> FALSE,
   issuedAt |-> 0, expired |-> FALSE]

\* a request field: undefined, a string of blanks, an array, a string
Absent == [kind |-> "absent", tok |-> NoToken]
Blank == [kind |-> "blank", tok |-> NoToken]
Repeated(t) == [kind |-> "array", tok |-> t]
Str(t) == [kind |-> "string", tok |-> t]

\* typeof v === 'string' ? String(v).trim() : ''
fieldToken(v) == IF v.kind = "string" THEN v.tok ELSE NoToken

Bearer == <<"B", "e", "a", "r", "e", "r">>
bearer == <<"b", "e", "a", "r", "e", "r">>
Basic == <<"B", "a", "s", "i", "c">>

NoHeader == [scheme |-> Empty, cred |-> NoToken, long |-> FALSE]

\* the header as its first word (the scheme, if any), the credential that
\* follows it, and whether the whole line is longer than 20 characters
headerToken(header) ==
  IF header = NoHeader THEN NoToken
  ELSE IF toLowerCase(header.scheme) = bearer /\ header.cred # NoToken
       THEN header.cred
  ELSE IF header.long THEN header.cred
  ELSE NoToken

\* the same five sources, the body looked at before the query
extractTokenBodyFirst(req) ==
  LET t0 == headerToken(req.header)
      t1 == IF t0 = NoToken /\ req.hasBody THEN fieldToken(req.bodyToken) ELSE t0
      t2 == IF t1 = NoToken /\ req.hasBody THEN fieldToken(req.bodyTokenkey) ELSE t1
      t3 == IF t2 = NoToken THEN fieldToken(req.queryToken) ELSE t2
      t4 == IF t3 = NoToken THEN fieldToken(req.queryTokenkey) ELSE t3
  IN  t4

extractToken(req) ==
  LET t0 == headerToken(req.header)
      t1 == IF t0 = NoToken THEN fieldToken(req.queryToken) ELSE t0
      t2 == IF t1 = NoToken THEN fieldToken(req.queryTokenkey) ELSE t1
      t3 == IF t2 = NoToken /\ req.hasBody THEN fieldToken(req.bodyToken) ELSE t2
      t4 == IF t3 = NoToken /\ req.hasBody THEN fieldToken(req.bodyTokenkey) ELSE t3
  IN  t4

\* jwt.verify(token, key) returns the payload or throws
jwtVerify(tok, key) == tok # NoToken /\ tok.sig = key /\ ~tok.expired

\* faulty variant: no second attempt against the default
verifiedConfiguredOnly(tok, JWT_SECRET) ==
  jwtVerify(tok, IF JWT_SECRET # "" THEN JWT_SECRET ELSE DEFAULT_SECRET)

\* verification against the configured secret, then against the default
verified(tok, JWT_SECRET) ==
  \/ jwtVerify(tok, IF JWT_SECRET # "" THEN JWT_SECRET ELSE DEFAULT_SECRET)
  \/ /\ JWT_SECRET # ""
     /\ JWT_SECRET # DEFAULT_SECRET
     /\ jwtVerify(tok, DEFAULT_SECRET)

\* the users collection as the middleware and the guards read it: the
\* stored user, or none
NoUserDoc == [stored |-> FALSE, id |-> NoId, role |-> Empty, tokenInvalidAfter |-> NoCutoff]

findById(db, id) == IF db.stored /\ db.id = id THEN db ELSE NoUserDoc

\* the comparison made on the cutoff itself, not on its whole second
revokedToTheTick(tok, user) ==
  /\ user.tokenInvalidAfter # NoCutoff
  /\ tok.stamped
  /\ tok.iat * TicksPerSecond < user.tokenInvalidAfter

revoked(tok, user) ==
  /\ user.tokenInvalidAfter # NoCutoff
  /\ tok.stamped
  /\ tok.iat < user.tokenInvalidAfter \div TicksPerSecond

Unauthorized == [next |-> FALSE, status |-> 401, message |-> "Token Invalid"]
Passed == [next |-> TRUE, status |-> 0, message |-> ""]

\* middlewares/authMiddleware.js
authMiddleware(req, JWT_SECRET) ==
  LET token == extractToken(req)
  IN  IF token = NoToken THEN [out |-> Unauthorized, userId |-> NoId, bodyUserId |-> NoId]
      ELSE IF ~verified(token, JWT_SECRET)
      THEN [out |-> Unauthorized, userId |-> NoId, bodyUserId |-> NoId]
      ELSE IF ~req.hasBody
      THEN [out |-> Unauthorized, userId |-> token.userId, bodyUserId |-> NoId]
      ELSE [out |-> Passed, userId |-> token.userId, bodyUserId |-> token.userId]

\* the fullest variant: the user is looked up and the revocation cutoff read
authMiddlewareFull(req, JWT_SECRET, db) ==
  LET token == extractToken(req)
      user == findById(db, token.userId)
  IN  IF token = NoToken THEN [out |-> Unauthorized, userId |-> NoId, bodyUserId |-> NoId]
      ELSE IF ~verified(token, JWT_SECRET)
      THEN [out |-> Unauthorized, userId |-> NoId, bodyUserId |-> NoId]
      ELSE IF token.userId = NoId
      THEN [out |-> Unauthorized, userId |-> NoId, bodyUserId |-> NoId]
      ELSE IF ~user.stored
      THEN [out |-> Unauthorized, userId |-> NoId, bodyUserId |-> NoId]
      ELSE IF revoked(token, user)
      THEN [out |-> Unauthorized, userId |-> NoId, bodyUserId |-> NoId]
      ELSE [out |-> Passed, userId |-> token.userId, bodyUserId |-> token.userId]

\* the roles that pass a privileged guard
RoleAdmin == <<"a", "d", "m", "i", "n">>
RoleAdminCap == <<"A", "d", "m", "i", "n">>
RoleOwner == <<"o", "w", "n", "e", "r">>
RoleBackend == <<"b", "a", "c", "k", "e", "n", "d">>
RoleStaff == <<"s", "t", "a", "f", "f">>
RoleUser == <<"u", "s", "e", "r">>

\* the staff role let through as well
privilegedWithStaff(role) ==
  toLowerCase(role) \in {RoleAdmin, RoleOwner, RoleBackend, RoleStaff}

privileged(role) == toLowerCase(role) \in {RoleAdmin, RoleOwner, RoleBackend}

\* User.findById throws when the connection is down or the id cannot be cast
findByIdThrows(id, dbDown) == dbDown \/ (id # NoId /\ ~isObjectId(id))

\* the guards answer 401 or 403, or call next() (0). What a guard reads of
\* the request: req.userId, req.body, req.body.userId
requireAdminOwnerStocks(rq, db, dbDown, USER_CRUD_OPEN) ==
  LET userId == rq.userId
  IN  IF ~isObjectId(userId) THEN 401
      ELSE IF findByIdThrows(userId, dbDown) THEN 401
      ELSE IF privileged(findById(db, userId).role) THEN 0
      ELSE 403

requireBackend(rq, db, dbDown, USER_CRUD_OPEN) ==
  IF findByIdThrows(rq.userId, dbDown) THEN 401
  ELSE IF privileged(findById(db, rq.userId).role) THEN 0
  ELSE 403

requireAdminOwnerUsers(rq, db, dbDown, USER_CRUD_OPEN) ==
  IF rq.userId = NoId /\ ~rq.hasBody THEN 401
  ELSE LET userId == IF rq.userId # NoId THEN rq.userId ELSE rq.bodyUserId
       IN  IF ~isObjectId(userId) THEN 401
           ELSE IF USER_CRUD_OPEN = "true" THEN 0
           ELSE IF findByIdThrows(userId, dbDown) THEN 401
           ELSE IF privileged(findById(db, userId).role) THEN 0
           ELSE 403

requireAdmin(rq, db, dbDown, USER_CRUD_OPEN) ==
  IF rq.userId = NoId /\ ~rq.hasBody THEN 401
  ELSE LET userId == IF rq.userId # NoId THEN rq.userId ELSE rq.bodyUserId
       IN  IF ~isObjectId(userId) THEN 401
           ELSE IF findByIdThrows(userId, dbDown) THEN 401
           ELSE IF privileged(findById(db, userId).role) THEN 0
           ELSE 403

\* the privileged routes by the guard mounted on them
GuardedRoutes == {"stocks", "announcements", "remarks", "branches", "users"}

guardOf(route, rq, db, dbDown, USER_CRUD_OPEN) ==
  CASE route \in {"stocks", "announcements"} ->
         requireAdminOwnerStocks(rq, db, dbDown, USER_CRUD_OPEN)
    [] route = "remarks" -> requireBackend(rq, db, dbDown, USER_CRUD_OPEN)
    [] route = "branches" -> requireAdmin(rq, db, dbDown, USER_CRUD_OPEN)
    [] route = "users" -> requireAdminOwnerUsers(rq, db, dbDown, USER_CRUD_OPEN)

\* one request on its way through auth, the guard and the handler
NoCall ==
  [stage |-> "idle", mw |-> "", req |-> [header |-> NoHeader, queryToken |-> Absent,
      queryTokenkey |-> Absent, bodyToken |-> Absent, bodyTokenkey |-> Absent,
      hasBody |-> TRUE],
   secret |-> "", db |-> NoUserDoc, status |-> 0, message |-> "",
   userId |-> NoId, bodyUserId |-> NoId, hasBody |-> TRUE,
   route |-> "", crudOpen |-> "", dbDown |-> FALSE]

\* auth answers 401 or hands the request on
Authenticate(mw, req, JWT_SECRET, db) ==
  LET r == IF mw = "full" THEN authMiddlewareFull(req, JWT_SECRET, db)
           ELSE authMiddleware(req, JWT_SECRET)
  IN  /\ authCall.stage = "idle"
      /\ authCall' = [NoCall EXCEPT
            !.stage = IF r.out.next THEN "authed" ELSE "answered",
            !.mw = mw, !.req = req, !.secret = JWT_SECRET, !.db = db,
            !.status = r.out.status, !.message = r.out.message,
            !.userId = r.userId, !.bodyUserId = r.bodyUserId,
            !.hasBody = IF mw = "full" /\ r.out.next THEN TRUE ELSE req.hasBody]

\* the guard of a privileged route; next() runs the handler
Guard(route, USER_CRUD_OPEN, dbDown) ==
  LET status == guardOf(route, authCall, authCall.db, dbDown, USER_CRUD_OPEN)
  IN  /\ authCall.stage = "authed"
      /\ authCall' = [authCall EXCEPT
            !.stage = IF status = 0 THEN "handler" ELSE "answered",
            !.status = status,
            !.message = CASE status = 401 -> "Unauthorized"
                          [] status = 403 -> "Forbidden"
                          [] OTHER -> "",
            !.route = route, !.crudOpen = USER_CRUD_OPEN, !.dbDown = dbDown]

\* the response is sent and the request is over
AuthEnd ==
  /\ authCall.stage \in {"answered", "handler", "authed"}
  /\ authCall' = NoCall

----------------------------------------------------------------------------
(* The users collection and the user routes *)

RoleMechanic == <<"m", "e", "c", "h">>
RoleEmployees == <<"e", "m", "p", "l">>

StatusActive == <<"a", "c", "t", "i", "v", "e">>
StatusSuspended == <<"s", "u", "s", "p">>

\* userModel: the enum of role in the schema with 'backend' and in the one
\* without, the enum of status, the default of role
ROLE_OPTIONS(schema) ==
  IF schema = "withBackend"
  THEN {RoleAdmin, RoleMechanic, RoleStaff, RoleEmployees, RoleOwner, RoleBackend, RoleUser}
  ELSE {RoleAdmin, RoleMechanic, RoleStaff, RoleEmployees, RoleOwner, RoleUser}

STATUS_OPTIONS == {StatusActive, <<"i", "n", "a", "c", "t">>, StatusSuspended}

defaultRole(schema) == IF schema = "withBackend" THEN RoleStaff ELSE RoleUser

\* email addresses and phone numbers as they are submitted
EmA == <<"a">>
EmASp == <<"A", " ">>
EmB == <<"b">>

Ph1 == <<"1">>
Ph1Sp == <<"1", " ">>
Ph0 == <<"0">>

Nm == <<"x">>
Pw1 == <<"0">>
Pw2 == <<"1">>

BranchId == IdOf("c")

NoDate == 0 - 1

\* bcrypt.hash and the SHA-256 hex digest: one-way, never the text itself
bcryptHash(password) == <<"$">> \o password

sha256(token) == <<"#">> \o token

\* the document new User(fields) makes: schema defaults for what is missing
NewUser(id, fields, schema) ==
  [id |-> id,
   name |-> trim(fields.name),
   email |-> toLowerCase(trim(fields.email)),
   phone |-> trim(fields.phone),
   password |-> fields.password,
   role |-> IF fields.role # Empty THEN fields.role ELSE defaultRole(schema),
   status |-> IF fields.status # Empty THEN fields.status ELSE StatusActive,
   primaryBranch |-> fields.primaryBranch,
   branches |-> fields.branches,
   resetPasswordToken |-> Empty,
   resetPasswordExpiresAt |-> NoDate]

\* schema validation on save and with runValidators
invalidUser(doc, schema) ==
  \/ doc.name = Empty
  \/ doc.email = Empty
  \/ doc.password = Empty
  \/ doc.role \notin ROLE_OPTIONS(schema)
  \/ doc.status \notin STATUS_OPTIONS
  \/ doc.primaryBranch # Empty /\ ~isObjectId(doc.primaryBranch)
  \/ \E i \in 1..Len(doc.branches) : ~isObjectId(doc.branches[i])

\* a collection without unique indexes
duplicateKeyNever(us, doc) == FALSE

\* the unique index on email and the sparse unique index on phone (E11000)
duplicateKey(us, doc) ==
  \E u \in us :
    /\ u.id # doc.id
    /\ \/ u.email = doc.email
       \/ doc.phone # Empty /\ u.phone = doc.phone

\* User.findOne({ $or: [{ email }, { phone }] })
findDuplicate(us, email, phone) ==
  {u \in us : u.email = email \/ (phone # Empty /\ u.phone = phone)}

UserResponse(op, code, id, token) == [op |-> op, code |-> code, id |-> id, token |-> token]

NoUserResp == UserResponse("none", 0, 0, Empty)

\* save(): validation, then the insert under the unique indexes. The
\* answer is a status and the collection after it.
saveNew(us, doc, schema, onInvalid) ==
  IF invalidUser(doc, schema) THEN [code |-> onInvalid, users |-> us]
  ELSE IF duplicateKey(us, doc) THEN [code |-> 409, users |-> us]
  ELSE [code |-> 201, users |-> us \cup {doc}]

\* role: 'user'
registerRole(body) == RoleUser

\* POST /register of part_008: a safe payload, the role forced to 'user'
registerLatest(us, id, body) ==
  LET name == trim(body.name)
      email == toLowerCase(trim(body.email))
      phone == IF body.phone # Empty THEN trim(body.phone) ELSE Empty
      safeBody == [name |-> name, email |-> email, phone |-> phone,
                   role |-> registerRole(body), status |-> Empty, primaryBranch |-> Empty,
                   branches |-> <<>>, password |-> bcryptHash(body.password)]
  IN  IF name = Empty \/ email = Empty \/ body.password = Empty
      THEN [code |-> 400, users |-> us]
      ELSE IF findDuplicate(us, email, phone) # {} THEN [code |-> 409, users |-> us]
      ELSE saveNew(us, NewUser(id, safeBody, "withBackend"), "withBackend", 500)

\* POST /register of part_007: new User(req.body)
registerEarlier(us, id, body) ==
  LET email == toLowerCase(trim(body.email))
      phone == IF body.phone # Empty THEN trim(body.phone) ELSE Empty
      reqBody == [body EXCEPT !.email = email,
                              !.phone = IF phone # Empty THEN phone ELSE body.phone,
                              !.password = bcryptHash(body.password)]
  IN  IF email = Empty \/ body.password = Empty THEN [code |-> 400, users |-> us]
      ELSE IF findDuplicate(us, email, phone) # {} THEN [code |-> 409, users |-> us]
      ELSE saveNew(us, NewUser(id, reqBody, "withBackend"), "withBackend", 500)

\* POST /register of routes/userRoutes.js: the answer 'already exists' does
\* not end the handler, new User(req.body) is saved all the same and an
\* exception is logged without an answer (0); every answer has status 200
registerOldest(us, id, body) ==
  LET exists == {u \in us : u.email = toLowerCase(trim(body.email))}
      reqBody == [body EXCEPT !.password = bcryptHash(body.password)]
      saved == saveNew(us, NewUser(id, reqBody, "withoutBackend"), "withoutBackend", 0)
  IN  IF exists # {} THEN [code |-> 200, users |-> IF body.password = Empty THEN us ELSE saved.users]
      ELSE IF body.password = Empty THEN [code |-> 0, users |-> us]
      ELSE IF saved.code = 201 THEN [code |-> 200, users |-> saved.users]
      ELSE [code |-> 0, users |-> us]

RegisterVariants == {"latest", "earlier", "oldest"}

register(variant, us, id, body) ==
  CASE variant = "latest" -> registerLatest(us, id, body)
    [] variant = "earlier" -> registerEarlier(us, id, body)
    [] variant = "oldest" -> registerOldest(us, id, body)

Register(variant, body) ==
  LET r == register(variant, users, userSeq + 1, body)
  IN  /\ r.users # users => userSeq < MaxUsers
      /\ users' = r.users
      /\ userSeq' = IF r.users # users THEN userSeq + 1 ELSE userSeq
      /\ userResp' = UserResponse("register", r.code, userSeq + 1, Empty)
      /\ UNCHANGED <<userClock, issued, spent>>

\* POST / (admin create), behind auth and requireAdminOwner
AdminCreate(body) ==
  LET name == trim(body.name)
      email == toLowerCase(trim(body.email))
      role == trim(IF body.role # Empty THEN body.role ELSE RoleUser)
      phone == IF body.phone # Empty THEN trim(body.phone) ELSE Empty
      payload == [name |-> name, email |-> email,
                  password |-> bcryptHash(body.password), role |-> role,
                  status |-> IF body.status # Empty THEN body.status ELSE StatusActive,
                  phone |-> phone,
                  primaryBranch |-> IF isObjectId(body.primaryBranch)
                                    THEN body.primaryBranch ELSE Empty,
                  branches |-> SelectSeq(body.branches, isObjectId)]
      r == IF name = Empty \/ email = Empty \/ body.password = Empty
           THEN [code |-> 400, users |-> users]
           ELSE IF findDuplicate(users, email, phone) # {} THEN [code |-> 409, users |-> users]
           ELSE saveNew(users, NewUser(userSeq + 1, payload, "withBackend"), "withBackend", 400)
  IN  /\ r.users # users => userSeq < MaxUsers
      /\ users' = r.users
      /\ userSeq' = IF r.users # users THEN userSeq + 1 ELSE userSeq
      /\ userResp' = UserResponse("create", r.code, userSeq + 1, Empty)
      /\ UNCHANGED <<userClock, issued, spent>>

\* findByIdAndUpdate(id, update, { runValidators: true })
findByIdAndUpdate(us, id, updated) ==
  LET hit == {u \in us : u.id = id}
  IN  IF hit = {} THEN [code |-> 404, users |-> us]
      ELSE LET old == CHOOSE u \in hit : TRUE
               new == updated[old]
           IN  IF invalidUser(new, "withBackend") THEN [code |-> 400, users |-> us]
               ELSE IF duplicateKey(us, new) THEN [code |-> 409, users |-> us]
               ELSE [code |-> 200, users |-> (us \ {old}) \cup {new}]

\* PUT /:id (admin full update): the fields of the body that are set. Left
\* out: name, status, jobTitle, employeeCode, canSwitchBranch and the branch
\* fields, which no unique index covers, and a phone of '' (sent on as
\* undefined).
AdminUpdate(id, body) ==
  LET updated == [u \in users |->
                    [u EXCEPT
                       !.email = IF body.email # Empty
                                 THEN toLowerCase(trim(body.email)) ELSE u.email,
                       !.phone = IF body.phone # Empty THEN trim(body.phone) ELSE u.phone,
                       !.role = IF body.role # Empty THEN body.role ELSE u.role,
                       !.password = IF body.password # Empty
                                    THEN bcryptHash(body.password) ELSE u.password]]
      r == findByIdAndUpdate(users, id, updated)
  IN  /\ users' = r.users
      /\ userResp' = UserResponse("update", r.code, id, Empty)
      /\ UNCHANGED <<userSeq, userClock, issued, spent>>

\* PATCH /:id (role and branches)
PatchUser(id, body) ==
  LET updated == [u \in users |->
                    [u EXCEPT
                       !.role = IF body.role # Empty THEN body.role ELSE u.role,
                       !.primaryBranch = IF isObjectId(body.primaryBranch)
                                         THEN body.primaryBranch ELSE u.primaryBranch]]
      r == IF body.role = Empty /\ ~isObjectId(body.primaryBranch)
           THEN [code |-> 400, users |-> users]
           ELSE findByIdAndUpdate(users, id, updated)
  IN  /\ users' = r.users
      /\ userResp' = UserResponse("patch", r.code, id, Empty)
      /\ UNCHANGED <<userSeq, userClock, issued, spent>>

\* DELETE /:id
DeleteUser(id) ==
  LET hit == {u \in users : u.id = id}
  IN  /\ users' = users \ hit
      /\ userResp' = UserResponse("delete", IF hit = {} THEN 404 ELSE 200, id, Empty)
      /\ UNCHANGED <<userSeq, userClock, issued, spent>>

\* RESET_TOKEN_EXP_MINUTES, in ticks of the clock
RESET_TOKEN_EXP_MINUTES == 2

\* crypto.randomBytes(32).toString('hex'): a value never drawn before
RawTokens == {<<"r", "1">>, <<"r", "2">>}

\* POST /forgot-password
ForgotPassword(emailIn, rawToken) ==
  LET email == toLowerCase(trim(emailIn))
      hit == {u \in users : u.email = email}
  IN  IF email = Empty
      THEN /\ userResp' = UserResponse("forgot", 400, 0, Empty)
           /\ UNCHANGED <<users, userSeq, userClock, issued, spent>>
      ELSE IF hit = {}
      THEN /\ userResp' = UserResponse("forgot", 404, 0, Empty)
           /\ UNCHANGED <<users, userSeq, userClock, issued, spent>>
      ELSE LET u == CHOOSE u \in hit : TRUE
               new == [u EXCEPT
                         !.resetPasswordToken = sha256(rawToken),
                         !.resetPasswordExpiresAt = userClock + RESET_TOKEN_EXP_MINUTES]
           IN  /\ rawToken \notin issued
               /\ users' = (users \ {u}) \cup {new}
               /\ issued' = issued \cup {rawToken}
               /\ userResp' = UserResponse("forgot", 200, u.id, rawToken)
               /\ UNCHANGED <<userSeq, userClock, spent>>

\* a query that takes the token alone, whatever its expiry
resetCandidatesAnyTime(us, hashedToken, t) ==
  {u \in us : u.resetPasswordToken = hashedToken}

\* User.findOne({ resetPasswordToken, resetPasswordExpiresAt: { $gt: now } })
resetCandidates(us, hashedToken, t) ==
  {u \in us : u.resetPasswordToken = hashedToken /\ u.resetPasswordExpiresAt > t}

\* POST /reset-password
ResetPassword(tokenIn, password) ==
  LET token == trim(tokenIn)
      hit == resetCandidates(users, sha256(token), userClock)
  IN  IF token = Empty \/ password = Empty
      THEN /\ userResp' = UserResponse("reset", 400, 0, token)
           /\ UNCHANGED <<users, userSeq, userClock, issued, spent>>
      ELSE IF hit = {}
      THEN /\ userResp' = UserResponse("reset", 400, 0, token)
           /\ UNCHANGED <<users, userSeq, userClock, issued, spent>>
      ELSE LET u == CHOOSE u \in hit : TRUE
               new == [u EXCEPT
                         !.password = bcryptHash(password),
                         !.resetPasswordToken = Empty,
                         !.resetPasswordExpiresAt = NoDate]
           IN  /\ users' = (users \ {u}) \cup {new}
               /\ spent' = spent \cup {token}
               /\ userResp' = UserResponse("reset", 200, u.id, token)
               /\ UNCHANGED <<userSeq, userClock, issued>>

\* time passes
UserTick ==
  /\ userClock < MaxUserClock
  /\ userClock' = userClock + 1
  /\ UNCHANGED <<users, userSeq, userResp, issued, spent>>

----------------------------------------------------------------------------
(* The remark routes *)

KindQuotation == <<"q", "u", "o", "t", "a", "t", "i", "o", "n">>
KindJobcard == <<"j", "o", "b", "c", "a", "r", "d">>
KindBooking == <<"b", "o", "o", "k", "i", "n", "g">>
KindBookingCap == <<"B", "o", "o", "k", "i", "n", "g">>
KindInvoice == <<"i", "n", "v", "o", "i", "c", "e">>

LevelOk == <<"o", "k">>
LevelWarning == <<"w", "a", "r", "n", "i", "n", "g">>
LevelAlert == <<"a", "l", "e", "r", "t">>
LevelAlertCap == <<"A", "l", "e", "r", "t">>
LevelInfo == <<"i", "n", "f", "o">>

\* ['quotation','jobcard','booking']
RemarkKinds == {KindQuotation, KindJobcard, KindBooking}

\* ['ok','warning','alert']
RemarkLevels == {LevelOk, LevelWarning, LevelAlert}

\* the length .slice(0, 240) cuts a remark's text to
TEXT_LIMIT == 240

\* s.slice(0, n)
slice(s, n) == SubSeq(s, 1, IF Len(s) < n THEN Len(s) ELSE n)

Ref1 == <<"R", "1">>
Ref1Sp == <<" ", "R", "1", " ">>
Ref2 == <<"R", "2">>

TextShort == <<"h", "i">>
TextShortSp == <<" ", "h", "i", " ">>
TextOther == <<"y", "o">>
TextLong == [i \in 1..(TEXT_LIMIT + 2) |-> IF i <= TEXT_LIMIT THEN "a" ELSE "z"]

RemarkBody(kind, refId, level, text) ==
  [kind |-> kind, refId |-> refId, level |-> level, text |-> text]

NoRemark == [kind |-> Empty, refId |-> Empty, level |-> Empty, text |-> Empty,
             updatedBy |-> Empty]

\* the alternative: every upsert inserts, whether or not the filter matches
findOneAndUpdateInsertOnly(docs, filter, update) ==
  LET doc == [kind |-> filter.kind, refId |-> filter.refId, level |-> update.level,
              text |-> update.text, updatedBy |-> update.updatedBy]
  IN [docs |-> docs \cup {doc}, doc |-> doc]

\* Remark.findOneAndUpdate(filter, { $set: update }, { upsert: true, new: true }):
\* the first document that matches the filter is updated; when none matches
\* one is inserted from the filter and the update
findOneAndUpdate(docs, filter, update) ==
  LET matching == {d \in docs : d.kind = filter.kind /\ d.refId = filter.refId}
      doc == [kind |-> filter.kind, refId |-> filter.refId, level |-> update.level,
              text |-> update.text, updatedBy |-> update.updatedBy]
  IN IF matching = {}
       THEN [docs |-> docs \cup {doc}, doc |-> doc]
       ELSE LET found == CHOOSE d \in matching : TRUE
            IN [docs |-> (docs \ {found}) \cup {doc}, doc |-> doc]

RemarkResponse(code, body, data) == [code |-> code, body |-> body, data |-> data]

NoRemarkResp == RemarkResponse(0, RemarkBody(Empty, Empty, Empty, Empty), NoRemark)

\* POST /upsert as one function of the collection, the body and the caller
upsertRemark(docs, body, userId) ==
  LET k == toLowerCase(body.kind)
      id == trim(body.refId)
      lv == toLowerCase(body.level)
      update == [level |-> lv, text |-> slice(trim(body.text), TEXT_LIMIT),
                 updatedBy |-> userId]
      r == findOneAndUpdate(docs, [kind |-> k, refId |-> id], update)
  IN IF k \notin RemarkKinds THEN [docs |-> docs, resp |-> RemarkResponse(400, body, NoRemark)]
     ELSE IF id = Empty THEN [docs |-> docs, resp |-> RemarkResponse(400, body, NoRemark)]
     ELSE IF lv \notin RemarkLevels
       THEN [docs |-> docs, resp |-> RemarkResponse(400, body, NoRemark)]
     ELSE [docs |-> r.docs, resp |-> RemarkResponse(200, body, r.doc)]

\* POST /upsert, behind auth and requireBackend
UpsertRemark(body, userId) ==
  LET r == upsertRemark(remarks, body, userId)
  IN /\ remarks' = r.docs
     /\ remarkResp' = r.resp

----------------------------------------------------------------------------
(* The announcement routes *)

IsDigit(c) == c \in {"0", "1", "2", "3", "4", "5", "6", "7", "8", "9"}

DigitValue(c) ==
  CASE c = "0" -> 0 [] c = "1" -> 1 [] c = "2" -> 2 [] c = "3" -> 3 [] c = "4" -> 4
    [] c = "5" -> 5 [] c = "6" -> 6 [] c = "7" -> 7 [] c = "8" -> 8 [] c = "9" -> 9

\* the digits a string starts with
RECURSIVE leadingDigits(_)
leadingDigits(s) ==
  IF s # <<>> /\ IsDigit(Head(s)) THEN <<Head(s)>> \o leadingDigits(Tail(s)) ELSE <<>>

\* the number a string of digits writes in base 10
RECURSIVE decimal(_)
decimal(s) ==
  IF s = <<>> THEN 0 ELSE 10 * decimal(SubSeq(s, 1, Len(s) - 1)) + DigitValue(s[Len(s)])

NaN == [nan |-> TRUE, n |-> 0]

Num(n) == [nan |-> FALSE, n |-> n]

\* parseInt(s, 10): leading blanks skipped, an optional sign, then the digits
\* up to the first character that is none; NaN when there is no digit
parseInt(s) ==
  LET t == trimStart(s)
      signed == t # <<>> /\ Head(t) \in {"-", "+"}
      digits == leadingDigits(IF signed THEN Tail(t) ELSE t)
  IN IF digits = <<>> THEN NaN
     ELSE IF signed /\ Head(t) = "-" THEN Num(0 - decimal(digits))
     ELSE Num(decimal(digits))

\* x || d on numbers: NaN and 0 are falsy
OrNum(x, d) == IF x.nan \/ x.n = 0 THEN d ELSE x.n

TypeInfo == <<"i", "n", "f", "o">>

\* ['info', 'warning', 'alert']
AnnouncementTypes == {TypeInfo, LevelWarning, LevelAlert}

\* an expiresAt that is not stored, and one stored as null
ExpAbsent == 0 - 2
ExpNull == 0 - 1

\* the ids of the announcements, in the order of their creation
AnnouncementId(n) == IdOf(IF n = 1 THEN "1" ELSE IF n = 2 THEN "2" ELSE "3")

\* new Announcement(...), with the defaults of the schema: active true,
\* acknowledgedBy empty
NewAnnouncement(id, title, body, tp, createdBy, exp, at) ==
  [id |-> id, title |-> title, body |-> body, type |-> tp, createdBy |-> createdBy,
   active |-> TRUE, expiresAt |-> exp, acknowledgedBy |-> <<>>, createdAt |-> at]

AnnouncementResponse(op, code, data, limit, at) ==
  [op |-> op, code |-> code, data |-> data, limit |-> limit, at |-> at]

NoAnnouncementResp == AnnouncementResponse("none", 0, <<>>, 0, 0)

\* the alternative: an announcement that expires now is still listed
notExpiredOrNow(d, t) ==
  d.expiresAt = ExpAbsent \/ d.expiresAt = ExpNull \/ d.expiresAt >= t

\* $or: [{ expiresAt: { $exists: false } }, { expiresAt: null }, { expiresAt: { $gt: now } }]
notExpired(d, t) ==
  d.expiresAt = ExpAbsent \/ d.expiresAt = ExpNull \/ d.expiresAt > t

\* the limit when the query names none
DEFAULT_LIMIT == 50

\* Math.max(parseInt(req.query.limit || '50', 10) || 50, 1)
publicLimit(q) ==
  LET n == OrNum(IF q = Empty THEN Num(DEFAULT_LIMIT) ELSE parseInt(q), DEFAULT_LIMIT)
  IN IF n > 1 THEN n ELSE 1

\* .sort({ createdAt: -1 }): the collection is kept in the order of creation
RECURSIVE newestFirst(_)
newestFirst(s) ==
  IF s = <<>> THEN <<>> ELSE <<s[Len(s)]>> \o newestFirst(SubSeq(s, 1, Len(s) - 1))

\* .select('title body type createdAt expiresAt'), the _id going along
selectPublic(d) ==
  [id |-> d.id, title |-> d.title, body |-> d.body, type |-> d.type,
   createdAt |-> d.createdAt, expiresAt |-> d.expiresAt]

\* GET /public as a function of the collection, the time and the query
publicList(docs, t, q) ==
  LET found == SelectSeq(newestFirst(docs), LAMBDA d : d.active = TRUE /\ notExpired(d, t))
      limit == publicLimit(q)
      items == slice(found, limit)
  IN AnnouncementResponse("public", 200, [i \in 1..Len(items) |-> selectPublic(items[i])],
                          limit, t)

\* GET /public
PublicList(q) ==
  /\ annResp' = publicList(announcements, annClock, q)
  /\ UNCHANGED <<announcements, annClock>>

\* POST /, behind auth and requireAdminOwner; the clock counts days, so that
\* Date.now() + days * 24 * 60 * 60 * 1000 is the clock plus the days
CreateAnnouncement(body, userId) ==
  LET tp == toLowerCase(Or(body.type, TypeInfo))
      days == parseInt(Or(body.expiresInDays, <<"0">>))
      exp == IF ~days.nan /\ days.n > 0 THEN annClock + days.n ELSE ExpNull
      created == NewAnnouncement(AnnouncementId(Len(announcements) + 1), trim(body.title),
                                 trim(body.body), tp, userId, exp, annClock)
  IN /\ UNCHANGED annClock
     /\ IF tp \notin AnnouncementTypes \/ body.title = Empty \/ body.body = Empty
          THEN /\ annResp' = AnnouncementResponse("create", 400, <<>>, 0, annClock)
               /\ UNCHANGED announcements
          ELSE /\ Len(announcements) < MaxAnnouncements
               /\ announcements' = Append(announcements, created)
               /\ annResp' = AnnouncementResponse("create", 201, <<created.id>>, 0, annClock)

\* $addToSet on an array: the value is appended unless the array holds it
addToSet(arr, v) == IF \E i \in 1..Len(arr) : arr[i] = v THEN arr ELSE Append(arr, v)

\* POST /:id/ack, behind auth: updateOne({ _id: id }, { $addToSet: ... })
Acknowledge(id, userId) ==
  /\ UNCHANGED annClock
  /\ IF ~isObjectId(id)
       THEN /\ annResp' = AnnouncementResponse("ack", 400, <<id, userId>>, 0, annClock)
            /\ UNCHANGED announcements
       ELSE /\ announcements' =
                 [i \in 1..Len(announcements) |->
                    IF announcements[i].id = id
                      THEN [announcements[i] EXCEPT
                              !.acknowledgedBy = addToSet(@, userId)]
                      ELSE announcements[i]]
            /\ annResp' = AnnouncementResponse("ack", 200, <<id, userId>>, 0, annClock)

\* Announcement.findByIdAndUpdate(id, body): the fields the body names are
\* set, and a $unset of expiresAt removes it; the schema's other fields stay
updateAnnouncement(d, body) ==
  LET set == [f \in DOMAIN d |-> IF f \in DOMAIN body THEN body[f] ELSE d[f]]
  IN IF "$unset" \in DOMAIN body /\ "expiresAt" \in body["$unset"]
       THEN [set EXCEPT !.expiresAt = ExpAbsent]
       ELSE set

\* if (body.type && ![...].includes(String(body.type).toLowerCase())) delete body.type
dropInvalidType(body) ==
  IF "type" \in DOMAIN body /\ body.type # Empty
       /\ toLowerCase(body.type) \notin AnnouncementTypes
    THEN [f \in DOMAIN body \ {"type"} |-> body[f]]
    ELSE body

\* PUT /:id, behind auth and requireAdminOwner
UpdateAnnouncement(id, body) ==
  /\ UNCHANGED annClock
  /\ IF ~isObjectId(id)
       THEN /\ annResp' = AnnouncementResponse("update", 400, <<id>>, 0, annClock)
            /\ UNCHANGED announcements
     ELSE IF \A i \in 1..Len(announcements) : announcements[i].id # id
       THEN /\ annResp' = AnnouncementResponse("update", 404, <<id>>, 0, annClock)
            /\ UNCHANGED announcements
     ELSE /\ announcements' =
               [i \in 1..Len(announcements) |->
                  IF announcements[i].id = id
                    THEN updateAnnouncement(announcements[i], dropInvalidType(body))
                    ELSE announcements[i]]
          /\ annResp' = AnnouncementResponse("update", 200, <<id>>, 0, annClock)

\* DELETE /:id, behind auth and requireAdminOwner: active set to false
DeleteAnnouncement(id) ==
  /\ UNCHANGED annClock
  /\ IF ~isObjectId(id)
       THEN /\ annResp' = AnnouncementResponse("delete", 400, <<id>>, 0, annClock)
            /\ UNCHANGED announcements
       ELSE /\ announcements' =
                 [i \in 1..Len(announcements) |->
                    IF announcements[i].id = id
                      THEN [announcements[i] EXCEPT !.active = FALSE]
                      ELSE announcements[i]]
            /\ annResp' = AnnouncementResponse("delete", 200, <<id>>, 0, annClock)

\* a day passes
AnnouncementTick ==
  /\ annClock < MaxAnnClock
  /\ annClock' = annClock + 1
  /\ UNCHANGED <<announcements, annResp>>

----------------------------------------------------------------------------
(* The stock proxy with the retry for a stale movement id *)

\* const upper = (v) => String(v || '').trim().toUpperCase()
upper(v) == toUpperCase(trim(v))

\* a string holds another one
contains(s, pattern) ==
  \E i \in 1..(Len(s) - Len(pattern) + 1) : SubSeq(s, i, i + Len(pattern) - 1) = pattern

MovementNotFound ==
  <<"m", "o", "v", "e", "m", "e", "n", "t", " ", "n", "o", "t", " ", "f", "o", "u", "n", "d">>

\* /movement not found/i.test(message)
notFound(message) == contains(toLowerCase(message), MovementNotFound)

ActUpdate == <<"u", "p", "d", "a", "t", "e">>
ActUpdateCap == <<"u", "p", "d", "A", "t", "e">>
ActDelete == <<"d", "e", "l", "e", "t", "e">>
ActCreate == <<"c", "r", "e", "a", "t", "e">>
ActCurrent == <<"c", "u", "r", "r", "e", "n", "t">>
ActList == <<"l", "i", "s", "t">>

Mv1 == <<"7">>
Mv1Sp == <<" ", "7">>
Mv2 == <<"8">>

GasPayload(action, movementId, id, chassisNo, Chassis_No) ==
  [action |-> action, movementId |-> movementId, id |-> id,
   data |-> [chassisNo |-> chassisNo, Chassis_No |-> Chassis_No]]

\* what the external app answers to a call: the call fails (threw), or it
\* gives a body with ok (true, false or none), a message and rows; a body
\* that is null has present FALSE
GasAnswer(threw, present, ok, message, rows) ==
  [threw |-> threw, present |-> present, ok |-> ok, message |-> message, rows |-> rows]

GasThrew == GasAnswer(TRUE, FALSE, "none", Empty, <<>>)
GasNull == GasAnswer(FALSE, FALSE, "none", Empty, <<>>)

GasRow(chassisNo, lastMovementId, movementId) ==
  [chassisNo |-> chassisNo, lastMovementId |-> lastMovementId, movementId |-> movementId]

\* rows.find((r) => upper(r?.chassisNo || r?.Chassis_No) === chassisNo): the
\* first row of the chassis, as a sequence of at most one row
RECURSIVE findRow(_, _)
findRow(rows, chassisNo) ==
  IF rows = <<>> THEN <<>>
  ELSE IF upper(Head(rows).chassisNo) = chassisNo THEN <<Head(rows)>>
  ELSE findRow(Tail(rows), chassisNo)

\* the id the 'current' rows give for the chassis: lastMovementId || movementId
currentId(answer, chassisNo) ==
  LET snap == findRow(IF answer.threw THEN <<>> ELSE answer.rows, chassisNo)
  IN IF snap = <<>> THEN Empty ELSE trim(Or(snap[1].lastMovementId, snap[1].movementId))

\* the id the 'list' rows give for the chassis: movementId
listId(answer, chassisNo) ==
  LET mv == findRow(IF answer.threw THEN <<>> ELSE answer.rows, chassisNo)
  IN IF mv = <<>> THEN Empty ELSE trim(mv[1].movementId)

GasCall(method, action, movementId) ==
  [method |-> method, action |-> action, movementId |-> movementId]

\* res.status(err?.response?.status || 500).json({ ok: false, message: 'Failed to reach GAS (POST)' })
GasFailed == [status |-> 500, data |-> GasAnswer(FALSE, TRUE, "false", <<"F">>, <<>>)]

GasOk(data) == [status |-> 200, data |-> data]

\* the alternative: the update is sent again with whatever id was found
retryWantedAnyId(fallbackId, attemptedId) == fallbackId # Empty

\* if (fallbackId && fallbackId !== attemptedId)
retryWanted(fallbackId, attemptedId) == fallbackId # Empty /\ fallbackId # attemptedId

\* POST / as a function of the payload and of what the external app answers
\* to the calls the handler makes, in their order: the calls made and the
\* response sent
proxyPost(payload, first, current, list, retry) ==
  LET action == Or(payload.action, ActCreate)
      isUpdate == toLowerCase(action) = ActUpdate
      chassisNo == upper(Or(payload.data.chassisNo, payload.data.Chassis_No))
      attemptedId == trim(Or(payload.movementId, payload.id))
      post1 == GasCall("POST", action, payload.movementId)
      getCurrent == GasCall("GET", ActCurrent, Empty)
      getList == GasCall("GET", ActList, Empty)
      fromCurrent == currentId(current, chassisNo)
      fallbackId == IF fromCurrent # Empty THEN fromCurrent ELSE listId(list, chassisNo)
      lookups == IF fromCurrent # Empty THEN <<getCurrent>> ELSE <<getCurrent, getList>>
      post2 == GasCall("POST", action, fallbackId)
  IN IF first.threw THEN [calls |-> <<post1>>, response |-> GasFailed]
     ELSE IF ~(isUpdate /\ first.present /\ first.ok = "false" /\ notFound(first.message)
               /\ chassisNo # Empty)
       THEN [calls |-> <<post1>>, response |-> GasOk(first)]
     ELSE IF ~retryWanted(fallbackId, attemptedId)
       THEN [calls |-> <<post1>> \o lookups, response |-> GasOk(first)]
     ELSE IF retry.threw
       THEN [calls |-> <<post1>> \o lookups \o <<post2>>, response |-> GasFailed]
     ELSE [calls |-> <<post1>> \o lookups \o <<post2>>,
           response |-> GasOk(IF retry.present THEN retry ELSE first)]

GasExchange(stage, payload, answers, calls, response) ==
  [stage |-> stage, payload |-> payload, answers |-> answers, calls |-> calls,
   response |-> response]

NoExchange ==
  GasExchange("idle", GasPayload(Empty, Empty, Empty, Empty, Empty),
              <<>>, <<>>, [status |-> 0, data |-> GasNull])

\* POST /: the answers of the calls that were not made are not recorded
ProxyPost(payload, first, current, list, retry) ==
  LET r == proxyPost(payload, first, current, list, retry)
      made == Len(r.calls)
      all == <<first, current, list, retry>>
      answers == IF made = 1 THEN <<first>>
                 ELSE IF r.calls[made].method = "POST"
                   THEN IF made = 3 THEN <<first, current, retry>> ELSE all
                 ELSE IF made = 2 THEN <<first, current>> ELSE <<first, current, list>>
  IN /\ gasCall.stage = "idle"
     /\ gasCall' = GasExchange("answered", payload, answers, r.calls, r.response)

\* the response is sent; the next request may come
ProxyEnd ==
  /\ gasCall.stage = "answered"
  /\ gasCall' = NoExchange

----------------------------------------------------------------------------
(* The cache of the webhook proxy's GET forwards *)

\* Time is counted in ticks of four seconds: the 8 * 1000 ms are 2 ticks.
CACHE_TTL_MS == 2

\* if (WEBHOOK_CACHE.size > 500)
CACHE_MAX == 500

\* .slice(0, 50)
CACHE_EVICT == 50

\* a payload is a number: none at all, the empty object, and the others
PayloadNone == 0 - 1
PayloadEmpty == 0

\* `${webhookUrl}|${JSON.stringify(payload || {})}`
cacheKey(webhookUrl, payload) ==
  <<webhookUrl, IF payload = PayloadNone THEN PayloadEmpty ELSE payload>>

\* WEBHOOK_CACHE is a Map: a sequence of entries in the order of insertion,
\* one entry per key
CacheEntry(k, t, data) == [k |-> k, t |-> t, data |-> data]

cacheHas(cache, k) == \E i \in 1..Len(cache) : cache[i].k = k

cacheEntryOf(cache, k) == cache[CHOOSE i \in 1..Len(cache) : cache[i].k = k]

cacheDelete(cache, k) == SelectSeq(cache, LAMBDA e : e.k # k)

\* WEBHOOK_CACHE.set(k, v): the entry of a key that is there is replaced in
\* its place, a new key is appended
cacheSet(cache, k, t, data) ==
  IF cacheHas(cache, k)
    THEN [i \in 1..Len(cache) |-> IF cache[i].k = k THEN CacheEntry(k, t, data) ELSE cache[i]]
    ELSE Append(cache, CacheEntry(k, t, data))

\* cacheGet: the data of an entry younger than the TTL; an older entry is
\* deleted; null, which is falsy as the empty string is, is Empty
cacheGet(cache, webhookUrl, payload, t) ==
  LET k == cacheKey(webhookUrl, payload)
  IN IF ~cacheHas(cache, k) THEN [cache |-> cache, data |-> Empty]
     ELSE IF t - cacheEntryOf(cache, k).t < CACHE_TTL_MS
       THEN [cache |-> cache, data |-> cacheEntryOf(cache, k).data]
     ELSE [cache |-> cacheDelete(cache, k), data |-> Empty]

\* the place of an entry in Array.from(entries).sort((a, b) => a[1].t - b[1].t):
\* the sort is stable, entries of one timestamp keep the order of insertion
sortedPlace(cache, i) ==
  1 + Cardinality({j \in 1..Len(cache) :
                     \/ cache[j].t < cache[i].t
                     \/ cache[j].t = cache[i].t /\ j < i})

\* the alternative: the entries at the end of the sorted array are deleted
evictNewest(cache) ==
  LET kept == {i \in 1..Len(cache) : sortedPlace(cache, i) <= Len(cache) - CACHE_EVICT}
  IN SelectSeq([i \in 1..Len(cache) |-> [e |-> cache[i], i |-> i]],
               LAMBDA x : x.i \in kept)

\* .sort(...).slice(0, 50), then WEBHOOK_CACHE.delete of each
evictOldest(cache) ==
  LET kept == {i \in 1..Len(cache) : sortedPlace(cache, i) > CACHE_EVICT}
  IN SelectSeq([i \in 1..Len(cache) |-> [e |-> cache[i], i |-> i]],
               LAMBDA x : x.i \in kept)

\* cachePut
cachePut(cache, webhookUrl, payload, data, t) ==
  LET set == cacheSet(cache, cacheKey(webhookUrl, payload), t, data)
      left == evictOldest(set)
  IN IF Len(set) > CACHE_MAX THEN [i \in 1..Len(left) |-> left[i].e] ELSE set

MethodGet == <<"G", "E", "T">>
MethodPost == <<"P", "O", "S", "T">>

Url1 == <<"u", "1">>
Url2 == <<"u", "2">>
Data1 == <<"d">>

ForwardResponse(kind, status, webhookUrl, payload, method, data) ==
  [kind |-> kind, status |-> status, webhookUrl |-> webhookUrl, payload |-> payload,
   method |-> method, data |-> data]

NoForward == ForwardResponse("none", 0, Empty, PayloadNone, Empty, Empty)

Forwarding(webhookUrl, payload, method, at) ==
  [webhookUrl |-> webhookUrl, payload |-> payload, method |-> method, at |-> at]

\* POST /booking/webhook (and /jobcard/webhook) up to the call of the external
\* webhook, for a payload without a serial: no webhookUrl is answered 400, a
\* GET with a truthy cached answer is answered from the cache, anything else
\* is forwarded and waits for the webhook
CacheRequest(webhookUrl, payload, method) ==
  LET httpMethod == toUpperCase(Or(method, MethodPost))
      got == cacheGet(webhookCache, webhookUrl, payload, cacheNow)
  IN /\ Len(cachePending) < MaxInFlight
     /\ UNCHANGED <<cacheNow, forwardedAt>>
     /\ IF webhookUrl = Empty
          THEN /\ cacheResp' = ForwardResponse("refused", 400, webhookUrl, payload, httpMethod, Empty)
               /\ UNCHANGED <<webhookCache, cachePending>>
        ELSE IF httpMethod = MethodGet /\ got.data # Empty
          THEN /\ cacheResp' = ForwardResponse("cached", 200, webhookUrl, payload, httpMethod, got.data)
               /\ UNCHANGED <<webhookCache, cachePending>>
        ELSE /\ cacheResp' =
                  ForwardResponse("forwarding", 0, webhookUrl, payload, httpMethod, Empty)
             /\ webhookCache' = IF httpMethod = MethodGet THEN got.cache ELSE webhookCache
             /\ cachePending' =
                  Append(cachePending, Forwarding(webhookUrl, payload, httpMethod, cacheNow))

\* the external webhook answers a forward: a 2xx answer to a GET is put in
\* the cache and the request answered with it; any other status gives 502
CacheAnswer(i, status, data) ==
  LET f == cachePending[i]
      ok == status \div 100 = 2
      k == cacheKey(f.webhookUrl, f.payload)
  IN /\ i \in DOMAIN cachePending
     /\ cachePending' = [j \in 1..(Len(cachePending) - 1) |->
                           IF j < i THEN cachePending[j] ELSE cachePending[j + 1]]
     /\ UNCHANGED cacheNow
     /\ IF ok
          THEN /\ cacheResp' = ForwardResponse("forwarded", status, f.webhookUrl, f.payload,
                                               f.method, data)
               /\ webhookCache' = IF f.method = MethodGet
                                    THEN cachePut(webhookCache, f.webhookUrl, f.payload, data,
                                                  cacheNow)
                                    ELSE webhookCache
               /\ forwardedAt' = IF f.method = MethodGet
                                   THEN [x \in DOMAIN forwardedAt \cup {k} |->
                                           IF x = k THEN cacheNow ELSE forwardedAt[x]]
                                   ELSE forwardedAt
          ELSE /\ cacheResp' = ForwardResponse("failed", 502, f.webhookUrl, f.payload,
                                               f.method, data)
               /\ UNCHANGED <<webhookCache, forwardedAt>>

\* four seconds pass
CacheTick(max) ==
  /\ cacheNow < max
  /\ cacheNow' = cacheNow + 1
  /\ UNCHANGED <<webhookCache, cachePending, cacheResp, forwardedAt>>

----------------------------------------------------------------------------
(* The pending transfers of a branch *)

BranchAll == <<"a", "l", "l">>
BranchAllCap == <<"A", "l", "l">>

\* resolveUserOptional: the user of a token that verifies, with the role;
\* NoUser stands for a request whose token is missing, does not verify or
\* names no stored user
resolveUserOptional(caller) ==
  IF caller = NoUser THEN [resolved |-> FALSE, userId |-> NoUser, role |-> ""]
  ELSE [resolved |-> TRUE, userId |-> caller, role |-> UserDoc(caller).role]

\* the alternative: staff may ask for all branches too
allowAllWithStaff(role) == role \in {"admin", "owner", "backend", "staff"}

\* ['admin', 'owner', 'backend'].includes(role)
allowAll(role) == role \in {"admin", "owner", "backend"}

\* Math.min(Math.max(parseInt(req.query.limit || '500', 10), 1), 1000), for a
\* query that names a number or none
pendingLimit(q) ==
  LET n == parseInt(Or(q, <<"5", "0", "0">>)).n
      atLeast == IF n > 1 THEN n ELSE 1
  IN IF atLeast < 1000 THEN atLeast ELSE 1000

PendingResponse(code, caller, branch, limitQuery, data, collection) ==
  [code |-> code, caller |-> caller, branch |-> branch, limitQuery |-> limitQuery,
   data |-> data, collection |-> collection]

NoPendingResp == PendingResponse(0, NoUser, Empty, Empty, <<>>, <<>>)

\* GET /transfers/pending as a function of the ledger, the caller and the
\* query: StockMovement.find(filter).sort({ createdAt: 1 }).limit(limit)
pendingTransfers(mv, caller, branch, limitQuery) ==
  LET resolved == resolveUserOptional(caller)
      isAll == toLowerCase(trim(branch)) = BranchAll
      wantsAll == allowAll(resolved.role) /\ isAll
      branchName == IF trim(branch) = Empty \/ (~allowAll(resolved.role) /\ isAll)
                      THEN IF resolved.resolved THEN getBranchNameForUser(resolved.userId)
                           ELSE Empty
                      ELSE trim(branch)
      branchKey == normalize(branchName)
      found == SelectSeq(mv, LAMBDA m : /\ m.action = "transfer"
                                        /\ m.transferStatus = "pending"
                                        /\ ~m.deleted
                                        /\ wantsAll \/ m.targetBranchKey = branchKey)
  IN IF ~wantsAll /\ branchKey = Empty THEN PendingResponse(400, caller, branch, limitQuery, <<>>, mv)
     ELSE PendingResponse(200, caller, branch, limitQuery,
                          slice(found, pendingLimit(limitQuery)), mv)

\* GET /transfers/pending
PendingList(caller, branch, limitQuery) ==
  pendingResp' = pendingTransfers(movements, caller, branch, limitQuery)

----------------------------------------------------------------------------
(* The next serial from the CSV of responses *)

Quote == "\""
Comma == ","
NewLine == "\n"
Return == "\r"

\* parseCsv: the loop over the characters, from position i on, with the rows
\* closed so far, the row and the column being read, and inQuotes
RECURSIVE parseCsvFrom(_, _, _, _, _, _)
parseCsvFrom(text, i, rows, row, col, inQuotes) ==
  IF i > Len(text)
    THEN IF col # Empty \/ row # <<>> THEN Append(rows, Append(row, col)) ELSE rows
  ELSE
    LET c == text[i]
        n == IF i < Len(text) THEN text[i + 1] ELSE ""
    IN IF c = Quote /\ ~inQuotes THEN parseCsvFrom(text, i + 1, rows, row, col, TRUE)
       ELSE IF c = Quote /\ inQuotes
         THEN IF n = Quote THEN parseCsvFrom(text, i + 2, rows, row, Append(col, Quote), TRUE)
              ELSE parseCsvFrom(text, i + 1, rows, row, col, FALSE)
       ELSE IF c = Comma /\ ~inQuotes
         THEN parseCsvFrom(text, i + 1, rows, Append(row, col), Empty, FALSE)
       ELSE IF c \in {NewLine, Return} /\ ~inQuotes
         THEN LET next == IF c = Return /\ n = NewLine THEN i + 2 ELSE i + 1
              IN IF col # Empty \/ row # <<>>
                   THEN parseCsvFrom(text, next, Append(rows, Append(row, col)), <<>>, Empty,
                                     FALSE)
                   ELSE parseCsvFrom(text, next, rows, row, col, FALSE)
       ELSE parseCsvFrom(text, i + 1, rows, row, Append(col, c), inQuotes)

parseCsv(text) == parseCsvFrom(text, 1, <<>>, <<>>, Empty, FALSE)

Spaces(k) == [i \in 1..k |-> " "]

\* a\s*b
spaced(s, a, b) == \E k \in 0..Len(s) : s = a \o Spaces(k) \o b

\* a\s*b\s*c
spaced3(s, a, b, c) ==
  \E k \in 0..Len(s), l \in 0..Len(s) : s = a \o Spaces(k) \o b \o Spaces(l) \o c

WordSerial == <<"s", "e", "r", "i", "a", "l">>
WordNo == <<"n", "o">>
WordNoDot == <<"n", "o", ".">>
WordNumber == <<"n", "u", "m", "b", "e", "r">>
WordQuotation == KindQuotation
WordQuote == <<"q", "u", "o", "t", "e">>
WordId == <<"i", "d">>
WordJc == <<"j", "c">>
WordJob == <<"j", "o", "b">>
WordCard == <<"c", "a", "r", "d">>

\* /^(quotation\s*no\.?|quotation\s*number|serial\s*no\.?|serial|quote\s*id)$/i
rxQ(h) ==
  LET s == toLowerCase(h)
  IN \/ \E w \in {WordNo, WordNoDot, WordNumber} : spaced(s, WordQuotation, w)
     \/ \E w \in {WordNo, WordNoDot} : spaced(s, WordSerial, w)
     \/ s = WordSerial
     \/ spaced(s, WordQuote, WordId)

\* /^(jc\s*no\.?|jc\s*number|job\s*card\s*no\.?|job\s*card\s*number|serial(?:\s*no\.?)?)$/i
rxJ(h) ==
  LET s == toLowerCase(h)
  IN \/ \E w \in {WordNo, WordNoDot, WordNumber} : spaced(s, WordJc, w)
     \/ \E w \in {WordNo, WordNoDot, WordNumber} : spaced3(s, WordJob, WordCard, w)
     \/ s = WordSerial
     \/ \E w \in {WordNo, WordNoDot} : spaced(s, WordSerial, w)

\* headers.findIndex(test): the first place that passes, 0 for none
firstIndex(headers, Test(_)) ==
  IF \E i \in 1..Len(headers) : Test(headers[i])
    THEN CHOOSE i \in 1..Len(headers) :
           Test(headers[i]) /\ \A j \in 1..(i - 1) : ~Test(headers[j])
    ELSE 0

\* findSerialIdx, counting the columns from 1: 0 stands for -1
findSerialIdx(headers, kind) ==
  LET byName == firstIndex(headers,
                           LAMBDA h : IF kind = KindJobcard THEN rxJ(trim(h)) ELSE rxQ(trim(h)))
  IN IF byName > 0 THEN byName
     ELSE firstIndex(headers, LAMBDA h : contains(toLowerCase(h), WordSerial))

\* the cell of a row, '' for a row that is too short (String(undefined || ''))
cell(row, idx) == IF idx <= Len(row) THEN row[idx] ELSE Empty

\* parseIntStrict: the number of a cell that is, trimmed, /^\d+$/; else null
parseIntStrict(s) ==
  LET t == trim(s)
  IN IF t # Empty /\ \A i \in 1..Len(t) : IsDigit(t[i]) THEN Num(decimal(t)) ELSE NaN

DigitOf(n) ==
  CASE n = 0 -> "0" [] n = 1 -> "1" [] n = 2 -> "2" [] n = 3 -> "3" [] n = 4 -> "4"
    [] n = 5 -> "5" [] n = 6 -> "6" [] n = 7 -> "7" [] n = 8 -> "8" [] n = 9 -> "9"

\* String(n), for a natural number
RECURSIVE numberToString(_)
numberToString(n) ==
  IF n < 10 THEN <<DigitOf(n)>> ELSE Append(numberToString(n \div 10), DigitOf(n % 10))

\* nextSerialFromCsv, from the text fetched: the rows are read from the last
\* one backwards and the first number met decides; without any number the
\* maximum over all rows is 0 and the answer '1'
nextSerialFromCsv(csv, kind) ==
  LET rows == parseCsv(csv)
      idx == findSerialIdx(rows[1], kind)
      numeric == {i \in 2..Len(rows) : ~parseIntStrict(cell(rows[i], idx)).nan}
      last == CHOOSE i \in numeric : \A j \in numeric : j <= i
  IN IF rows = <<>> THEN <<"1">>
     ELSE IF idx = 0 THEN <<"1">>
     ELSE IF numeric # {} THEN numberToString(parseIntStrict(cell(rows[last], idx)).n + 1)
     ELSE <<"1">>

SerialAnswer(stage, csvUrl, kind, csv, nextSerial, source) ==
  [stage |-> stage, csvUrl |-> csvUrl, kind |-> kind, csv |-> csv,
   nextSerial |-> nextSerial, source |-> source]

NoSerialAnswer == SerialAnswer("idle", FALSE, Empty, Empty, Empty, "none")

\* GET /quotation/next-serial and GET /jobcard/next-serial: csvUrl tells
\* whether a CSV URL is in the query or the environment; csv is the text the
\* URL gives
NextSerialRoute(kind, csvUrl, csv) ==
  /\ csvCall.stage = "idle"
  /\ csvCall' = IF ~csvUrl THEN SerialAnswer("answered", csvUrl, kind, Empty, <<"1">>, "fallback")
                ELSE SerialAnswer("answered", csvUrl, kind, csv,
                                  nextSerialFromCsv(csv, kind), "csv")

\* the response is sent; the next request may come
NextSerialEnd ==
  /\ csvCall.stage = "answered"
  /\ csvCall' = NoSerialAnswer

----------------------------------------------------------------------------
(* The serials reserved *)

\* s.slice(-n)
sliceLast(s, n) == IF Len(s) <= n THEN s ELSE SubSeq(s, Len(s) - n + 1, Len(s))

\* String(raw || '').replace(/\D/g, '').slice(-10), '' unless 10 digits long
normalizeMobile10(raw) ==
  LET d == sliceLast(SelectSeq(raw, IsDigit), 10)
  IN IF Len(d) = 10 THEN d ELSE Empty

\* shortId6: the last 6 characters of a ULID (26 characters of Crockford's
\* base 32, the last 16 of them drawn at random on every call); without the
\* ulid module, the last 6 of the 8 hex digits of 4 random bytes, upper-cased
shortId6(ulidLoaded, ulid, randomBytes) ==
  IF ulidLoaded THEN sliceLast(ulid, 6) ELSE toUpperCase(sliceLast(randomBytes, 6))

\* buildSerial
buildSerial(kind, branchCode, id6) ==
  LET bc == toUpperCase(trim(branchCode))
      prefix == IF kind = KindJobcard THEN <<"J", "C">> ELSE <<"Q">>
  IN prefix \o <<"-">> \o bc \o <<"-">> \o id6

CodeHBL == <<"H", "B", "L">>

\* the branches stored: one, with its code
BranchCodeOf(branchId) == IF branchId = BranchId THEN CodeHBL ELSE Empty

ReserveBody(mobile, branchCode, branchId) ==
  [mobile |-> mobile, branchCode |-> branchCode, branchId |-> branchId]

ReserveResponse(code, kind, bc, serial) ==
  [code |-> code, kind |-> kind, bc |-> bc, serial |-> serial]

NoReserve == ReserveResponse(0, Empty, Empty, Empty)

\* POST /jobcard/serial/reserve and POST /quotation/serial/reserve; nothing is
\* stored by the routes: reserved is the record of what they answered
Reserve(kind, body, ulidLoaded, ulid, randomBytes) ==
  LET m10 == normalizeMobile10(body.mobile)
      bc0 == toUpperCase(trim(body.branchCode))
      bc == IF bc0 = Empty /\ body.branchId # Empty
              THEN toUpperCase(BranchCodeOf(body.branchId)) ELSE bc0
      serial == buildSerial(kind, bc, shortId6(ulidLoaded, ulid, randomBytes))
  IN IF m10 = Empty \/ bc = Empty
       THEN /\ reserveResp' = ReserveResponse(400, kind, bc, Empty)
            /\ UNCHANGED reserved
       ELSE /\ Len(reserved) < MaxReserved
            /\ reserveResp' = ReserveResponse(200, kind, bc, serial)
            /\ reserved' = Append(reserved, [kind |-> kind, bc |-> bc, serial |-> serial])

----------------------------------------------------------------------------
(* The handlers and their failures: how many responses a request receives *)

\* the routes followed
RouteRegister == "POST /api/users/register"
RouteLogin == "POST /api/users/login"
RouteValidUser == "GET /api/users/get-valid-user"
RouteStocks == "POST /api/stocks"

\* what the router does with the promise an async handler rejects: express 4
\* drops it, express 5 hands the error to its error handler, which answers 500
Express4 == "express 4"
Express5 == "express 5"

\* the call that throws while the handler runs, if any
ThrowsNothing == "none"
ThrowsFindOne == "User.findOne"
ThrowsHash == "bcrypt.hash"
ThrowsSave == "newUser.save"
ThrowsCompare == "bcrypt.compare"
ThrowsFindById == "User.findById"
ThrowsLast == "StockMovement.findOne (last)"
ThrowsExistingStock == "Stock.findOne"
ThrowsExistingPending == "StockMovement.findOne (pending)"
ThrowsCreate == "StockMovement.create"
ThrowsApply == "Stock.findOneAndUpdate"

\* a request: its token, whether the user looked for is stored, whether the
\* password is the right one, the call that throws, and for POST /api/stocks
\* the place of the handler's return and its status when nothing throws
RequestInput(tokenOk, exists, valid, throws, returnsAt, code) ==
  [tokenOk |-> tokenOk, exists |-> exists, valid |-> valid, throws |-> throws,
   returnsAt |-> returnsAt, code |-> code]

\* what a handler did: its calls of res.send/res.json, the status of the first
\* one, and whether its promise was rejected
Handled(calls, status, rejected) == [calls |-> calls, status |-> status, rejected |-> rejected]

\* POST /register, catch (err) { console.log(err) }
registerCatch(calls) == Handled(calls, IF calls = 0 THEN 0 ELSE 200, FALSE)

\* POST /register: the send for an existing user does not return, and the last
\* res.send of a handler that has sent throws inside the try
postRegister(in) ==
  LET first == IF in.exists THEN 1 ELSE 0 IN
  IF in.throws = ThrowsFindOne THEN registerCatch(0)
  ELSE IF in.throws \in {ThrowsHash, ThrowsSave} THEN registerCatch(first)
  ELSE IF first = 1 THEN registerCatch(2)
  ELSE Handled(1, 200, FALSE)

\* POST /login, catch (error) { console.error(error) }: user.password of no
\* user throws after the first send; the 401 does not return either
postLogin(in) ==
  IF in.throws = ThrowsFindOne THEN Handled(0, 0, FALSE)
  ELSE IF ~in.exists THEN Handled(1, 200, FALSE)
  ELSE IF in.throws = ThrowsCompare THEN Handled(0, 0, FALSE)
  ELSE IF ~in.valid THEN Handled(2, 401, FALSE)
  ELSE Handled(1, 200, FALSE)

\* authMiddleware: 401 from its catch, or next()
\* GET /get-valid-user: no try around the await
getValidUser(in) ==
  IF ~in.tokenOk THEN Handled(1, 401, FALSE)
  ELSE IF in.throws = ThrowsFindById THEN Handled(0, 0, TRUE)
  ELSE Handled(1, 200, FALSE)

\* POST /api/stocks: the awaits in the order of the handler (1 User.findById
\* and getBranchNameForUser, 3 the last movement, 4 the in-stock snapshot,
\* 5 the pending transfer, 6 create, 7 applyMovementToStock), the returns
\* between them (2 no chassis, 4 and 5 the refusals, 8 the 201)
StocksStep(throws) ==
  CASE throws = ThrowsFindById -> 1
    [] throws = ThrowsLast -> 3
    [] throws = ThrowsExistingStock -> 4
    [] throws = ThrowsExistingPending -> 5
    [] throws = ThrowsCreate -> 6
    [] throws = ThrowsApply -> 7
    [] OTHER -> 0

\* the throws that never reach the handler's catch: try { last = ... } catch {}
\* and the try of applyMovementToStock
StocksSwallowed == {ThrowsLast, ThrowsApply}

postStocks(in) ==
  LET step == StocksStep(in.throws)
      thrown == step # 0 /\ step <= in.returnsAt /\ in.throws \notin StocksSwallowed
  IN IF ~in.tokenOk THEN Handled(1, 401, FALSE)
     ELSE IF thrown THEN Handled(1, 500, FALSE)
     ELSE Handled(1, in.code, FALSE)

handle(route, in) ==
  CASE route = RouteRegister -> postRegister(in)
    [] route = RouteLogin -> postLogin(in)
    [] route = RouteValidUser -> getValidUser(in)
    [] route = RouteStocks -> postStocks(in)

\* the responses the client receives: the first send of the handler (a later
\* one throws ERR_HTTP_HEADERS_SENT), or the 500 of express 5's error handler
responses(h, framework) ==
  IF h.calls >= 1 THEN 1
  ELSE IF h.rejected /\ framework = Express5 THEN 1
  ELSE 0

RequestCall(stage, route, framework, in, h) ==
  [stage |-> stage, route |-> route, framework |-> framework, in |-> in,
   calls |-> h.calls, status |-> h.status, rejected |-> h.rejected,
   responses |-> responses(h, framework)]

NoRequest ==
  RequestCall("idle", "none", Express4,
              RequestInput(FALSE, FALSE, FALSE, ThrowsNothing, 0, 0), Handled(0, 0, FALSE))

\* a request arrives
Receive(route, framework, in) ==
  /\ reqCall.stage = "idle"
  /\ reqCall' = RequestCall("received", route, framework, in, Handled(0, 0, FALSE))

\* the middleware and the handler run to their end
Handle ==
  /\ reqCall.stage = "received"
  /\ reqCall' = RequestCall("returned", reqCall.route, reqCall.framework, reqCall.in,
                            handle(reqCall.route, reqCall.in))

\* the response has left; the next request may come
AnswerEnd ==
  /\ reqCall.stage = "returned"
  /\ reqCall.responses >= 1
  /\ reqCall' = NoRequest

----------------------------------------------------------------------------
(* The stock routes when the write of the Stock snapshot throws *)

\* faulty variant: the error of the Stock write leaves the function
rethrown(st, written, writeFails) ==
  [threw |-> writeFails, stock |-> IF writeFails THEN st ELSE written]

\* try { ... } catch (e) { console.error(...); return null } of
\* applyMovementToStock and of recomputeStockForChassis: st is the snapshot
\* before, written the snapshot the write would leave
swallowed(st, written, writeFails) ==
  [threw |-> FALSE, stock |-> IF writeFails THEN st ELSE written]

\* await applyMovementToStock(m), followed by the route's answer: code, or the
\* 500 of the route's catch when the await throws
applyThenAnswer(op, code, id, st, written, writeFails) ==
  LET r == swallowed(st, written, writeFails) IN
  /\ stock' = r.stock
  /\ resp' = Response(op, IF r.threw THEN 500 ELSE code, id)
  /\ snapshotFault' = writeFails

\* a request that ends before any write
refusedBeforeWrite(op, code, id) ==
  /\ resp' = Response(op, code, id)
  /\ snapshotFault' = FALSE
  /\ UNCHANGED <<movements, stock, patches>>

CreateFallible(u, body, writeFails) ==
  LET out == CreateOutcome(movements, stock, u, body) IN
  IF out.code = 201
  THEN /\ Len(movements) < MaxMovements
       /\ movements' = Append(movements, out.doc)
       /\ applyThenAnswer("create", 201, out.doc.movementId, stock,
                          applyMovementToStock(stock, out.doc), writeFails)
       /\ UNCHANGED patches
  ELSE refusedBeforeWrite("create", out.code, 0)

AdmitFallible(u, id, writeFails) ==
  LET code == AdmitCode(movements, u, id) IN
  IF code = 200
  THEN LET i == CHOOSE i \in FindLive(movements, id) : TRUE
           m == preSave([movements[i] EXCEPT !.transferStatus = "admitted",
                                             !.resolvedBy = u])
       IN /\ movements' = [movements EXCEPT ![i] = m]
          /\ applyThenAnswer("admit", 200, id, stock, applyMovementToStock(stock, m),
                             writeFails)
          /\ UNCHANGED patches
  ELSE refusedBeforeWrite("admit", code, id)

RejectFallible(u, id, writeFails) ==
  LET code == RejectCode(movements, u, id) IN
  IF code = 200
  THEN LET i == CHOOSE i \in FindLive(movements, id) : TRUE
           m == preSave([movements[i] EXCEPT !.transferStatus = "rejected",
                                             !.resolvedBy = u])
       IN /\ movements' = [movements EXCEPT ![i] = m]
          /\ applyThenAnswer("reject", 200, id, stock, applyMovementToStock(stock, m),
                             writeFails)
          /\ UNCHANGED patches
  ELSE refusedBeforeWrite("reject", code, id)

\* recomputeStockForChassis writes unless the chassis number is empty
PatchFallible(u, id, patch, writeFails) ==
  LET guard == requireAdminOwner(u)
      hit == FindAny(movements, id)
  IN IF guard # 0 THEN refusedBeforeWrite("patch", guard, id)
     ELSE IF hit = {} THEN refusedBeforeWrite("patch", 404, id)
     ELSE LET i == CHOOSE i \in hit : TRUE
              updated == applyPatch(movements[i], patch)
              mv == [movements EXCEPT ![i] = updated]
          IN /\ patches < MaxPatches
             /\ patches' = patches + 1
             /\ movements' = mv
             /\ applyThenAnswer("patch", 200, id, stock,
                                recomputeStockForChassis(stock, mv, updated.chassisNo),
                                writeFails /\ trim(updated.chassisNo) # Empty)

DeleteFallible(u, id, writeFails) ==
  LET guard == requireAdminOwner(u)
      hit == FindAny(movements, id)
  IN IF guard # 0 THEN refusedBeforeWrite("delete", guard, id)
     ELSE IF hit = {} THEN refusedBeforeWrite("delete", 404, id)
     ELSE LET i == CHOOSE i \in hit : TRUE
              updated == [movements[i] EXCEPT !.deleted = TRUE]
              mv == [movements EXCEPT ![i] = updated]
          IN /\ movements' = mv
             /\ applyThenAnswer("delete", 200, id, stock,
                                recomputeStockForChassis(stock, mv, updated.chassisNo),
                                writeFails /\ trim(updated.chassisNo) # Empty)
             /\ UNCHANGED patches

----------------------------------------------------------------------------
(* Branch keys of two names *)

\* a value handed to normalize: a string, or undefined/null
Undefined == [defined |-> FALSE, s |-> Empty]
Defined(s) == [defined |-> TRUE, s |-> s]

\* String(s || '')
stringOrEmpty(v) == IF v.defined THEN v.s ELSE Empty

\* the keys of two values: by normalize of the routes (key), by normalizeKey
\* of the models (modelKey), and the key of the key (again)
Keys(stage, a, b) ==
  [stage |-> stage, a |-> a, b |-> b,
   keyA |-> normalize(stringOrEmpty(a)),
   keyB |-> normalize(stringOrEmpty(b)),
   againA |-> normalize(normalize(stringOrEmpty(a))),
   modelKeyA |-> normalizeKey(stringOrEmpty(a)),
   modelKeyB |-> normalizeKey(stringOrEmpty(b)),
   modelAgainA |-> normalizeKey(normalizeKey(stringOrEmpty(a)))]

NoKeys == Keys("idle", Undefined, Undefined)

\* the keys of a and b are computed
Normalize(a, b) ==
  /\ normCall.stage = "idle"
  /\ normCall' = Keys("computed", a, b)

NormalizeEnd ==
  /\ normCall.stage = "computed"
  /\ normCall' = NoKeys

----------------------------------------------------------------------------
(* POST /:id/admit and POST /:id/reject as the handlers run them *)

\* a handler between requests; otherwise the route it serves ("admit" or
\* "reject"), the caller and the movement document it holds in memory
IdleResolver == [pc |-> "idle", op |-> "none", user |-> NoUser, movement |-> {}]

\* no handler is between its read and its answer
Quiescent == \A h \in Handlers : resolvers[h].pc = "idle"

\* faulty variant: the save writes only a transfer that is still pending, as
\* StockMovement.updateOne({movementId, transferStatus: 'pending'}, ...) would
saveRefusedUnlessPending(stored) == stored.transferStatus # "pending"

\* movement.save(): the document is updated by its _id whatever its stored
\* status has become since it was read (the schema sets no optimisticConcurrency)
saveRefused(stored) == FALSE

\* lines 505-531 and 544-570: the handler reads the caller and the movement,
\* answers at once when it refuses, and otherwise sets the new status on the
\* document it holds
ResolveRead(h, op, u, id) ==
  LET code == IF op = "admit" THEN AdmitCode(movements, u, id)
              ELSE RejectCode(movements, u, id)
  IN /\ resolvers[h].pc = "idle"
     /\ IF code = 200
        THEN LET i == CHOOSE i \in FindLive(movements, id) : TRUE
                 m == [movements[i] EXCEPT
                         !.transferStatus = IF op = "admit" THEN "admitted" ELSE "rejected",
                         !.resolvedBy = u]
             IN /\ resolvers' = [resolvers EXCEPT
                                   ![h] = [pc |-> "read", op |-> op, user |-> u,
                                           movement |-> {m}]]
                /\ UNCHANGED <<movements, stock, resp, patches, resolutions>>
        ELSE /\ resp' = Response(op, code, id)
             /\ UNCHANGED <<movements, stock, patches, resolvers, resolutions>>

\* lines 532 and 571: await movement.save(); the pre-save hook runs and the
\* paths the handler modified are written to the stored document
ResolveSave(h) ==
  /\ resolvers[h].pc = "read"
  /\ LET m == preSave(CHOOSE d \in resolvers[h].movement : TRUE)
         i == CHOOSE i \in FindAny(movements, m.movementId) : TRUE
     IN IF saveRefused(movements[i])
        THEN /\ resolvers' = [resolvers EXCEPT ![h] = IdleResolver]
             /\ resp' = Response(resolvers[h].op, 500, m.movementId)
             /\ UNCHANGED <<movements, stock, patches, resolutions>>
        ELSE /\ movements' = [movements EXCEPT
                                ![i] = [@ EXCEPT !.transferStatus = m.transferStatus,
                                                 !.resolvedBy = m.resolvedBy,
                                                 !.sourceBranchKey = m.sourceBranchKey,
                                                 !.targetBranchKey = m.targetBranchKey]]
             /\ resolvers' = [resolvers EXCEPT ![h] = [@ EXCEPT !.pc = "saved",
                                                                !.movement = {m}]]
             /\ UNCHANGED <<stock, resp, patches, resolutions>>

\* lines 533-534 and 572-573: await applyMovementToStock(movement) with the
\* document the handler holds, then the 200
ResolveApply(h) ==
  /\ resolvers[h].pc = "saved"
  /\ LET m == CHOOSE d \in resolvers[h].movement : TRUE
     IN /\ stock' = applyMovementToStock(stock, m)
        /\ resp' = Response(resolvers[h].op, 200, m.movementId)
        /\ resolutions' = Append(resolutions, [op |-> resolvers[h].op, id |-> m.movementId])
  /\ resolvers' = [resolvers EXCEPT ![h] = IdleResolver]
  /\ UNCHANGED <<movements, patches>>

----------------------------------------------------------------------------
(* The webhook proxy when the call of the external webhook throws *)

\* axios rejects (no answer at all, a timeout): the handler's catch answers 500
HookThrows(i) ==
  /\ i \in DOMAIN submissions
  /\ submissions[i].outcome = "forwarding"
  /\ submissions' = [submissions EXCEPT ![i].outcome = "500"]
  /\ UNCHANGED <<recentSerials, now>>

----------------------------------------------------------------------------
(* GET /current and GET /current/public *)

\* Stock.find({status: 'in_stock', sourceBranchKey: branchKey}), the key only
\* when there is one: the chassis numbers of the documents found
snapshotItems(st, branchKey) ==
  {d.chassisNo : d \in {x \in st : x.status = "in_stock"
                                  /\ (branchKey # Empty => x.sourceBranchKey = branchKey)}}

\* the scan of the movements that are not deleted, newest first (from i down):
\* the first movement of a chassis decides, and lists the chassis when it
\* places it at a branch, the branch of the key when there is one
RECURSIVE fallbackItems(_, _, _, _)
fallbackItems(mv, i, seen, branchKey) ==
  IF i = 0 THEN {}
  ELSE LET ch == toUpperCase(trim(mv[i].chassisNo))
           currentBranch == deriveCurrentBranch(mv[i])
       IN IF mv[i].deleted \/ ch = Empty \/ ch \in seen
          THEN fallbackItems(mv, i - 1, seen, branchKey)
          ELSE IF currentBranch = Empty
                  \/ (branchKey # Empty /\ normalize(currentBranch) # branchKey)
          THEN fallbackItems(mv, i - 1, seen \cup {ch}, branchKey)
          ELSE {ch} \cup fallbackItems(mv, i - 1, seen \cup {ch}, branchKey)

\* the response: the caller (NoUser on /current/public), the branch of the
\* query, the key filtered by, where the items come from, the chassis listed,
\* and what the snapshot and the scan each hold for that key
CurrentResponse(code, caller, branch, branchKey, served, data, snapshot, scan) ==
  [code |-> code, caller |-> caller, branch |-> branch, branchKey |-> branchKey,
   served |-> served, data |-> data, snapshot |-> snapshot, scan |-> scan]

NoCurrentResp == CurrentResponse(0, NoUser, Empty, Empty, "none", {}, {}, {})

\* GET /current for a user, GET /current/public for NoUser: the snapshot is
\* preferred, the movements are scanned when it holds nothing
currentStock(mv, st, caller, branch) ==
  LET query == trim(branch)
      branchName == IF query = Empty /\ caller # NoUser THEN getBranchNameForUser(caller)
                    ELSE query
      branchKey == normalize(branchName)
      items == snapshotItems(st, branchKey)
      scan == fallbackItems(mv, Len(mv), {}, branchKey)
  IN CurrentResponse(200, caller, branch, branchKey,
                     IF items = {} THEN "movements" ELSE "snapshot",
                     IF items = {} THEN scan ELSE items, items, scan)

GetCurrent(caller, branch) ==
  currentResp' = currentStock(movements, stock, caller, branch)

----------------------------------------------------------------------------
(* POST /api/branches and the Branch schema *)

\* the values a JSON body holds under a key: none, null, a number (whole
\* degrees here) or a string
JAbsent == [kind |-> "absent", n |-> 0, s |-> Empty]
JNull == [kind |-> "null", n |-> 0, s |-> Empty]
JNumber(n) == [kind |-> "number", n |-> n, s |-> Empty]
JString(s) == [kind |-> "string", n |-> 0, s |-> s]

\* a ?? b
coalesce(a, b) == IF a.kind \in {"absent", "null"} THEN b ELSE a

\* v != null
notNullish(v) == v.kind \notin {"absent", "null"}

\* Number(v) of a number or a string: blanks around the string are dropped,
\* the empty string is 0, an optional sign and digits are the number they
\* write, anything else is NaN
Number(v) ==
  IF v.kind = "number" THEN Num(v.n)
  ELSE LET t == trim(v.s)
           signed == t # <<>> /\ Head(t) \in {"-", "+"}
           digits == IF signed THEN Tail(t) ELSE t
       IN IF t = <<>> THEN Num(0)
          ELSE IF digits = <<>> \/ leadingDigits(digits) # digits THEN NaN
          ELSE IF Head(t) = "-" THEN Num(0 - decimal(digits))
          ELSE Num(decimal(digits))

\* Math.abs
abs(n) == IF n < 0 THEN 0 - n ELSE n

\* body.location: none, or a GeoJSON point with its coordinates
NoLocation == [given |-> FALSE, coordinates |-> <<>>]
Point(coordinates) == [given |-> TRUE, coordinates |-> coordinates]

\* the route's mapping of flat fields to GeoJSON: a location of the body is
\* kept (the schema casts its coordinates to numbers); without one, lat (or
\* latitude) and lng (or longitude), when both are there, become
\* [Number(lng), Number(lat)]
bodyLocation(body) ==
  LET lat == coalesce(body.lat, body.latitude)
      lng == coalesce(body.lng, body.longitude)
  IN IF ~body.location.given /\ notNullish(lat) /\ notNullish(lng)
     THEN Point(<<Number(lng), Number(lat)>>)
     ELSE Point([i \in 1..Len(body.location.coordinates) |->
                   Number(body.location.coordinates[i])])

\* variant of the schema's guard: a pair is left as it was given
preSaveKeeps(coordinates) == coordinates

\* branchSchema.pre('save'): a pair [a, b] with |a| <= 90 and |b| <= 180 is
\* taken for [lat, lng] and stored as [b, a]
preSaveLocation(coordinates) ==
  IF Len(coordinates) = 2
  THEN LET a == coordinates[1]
           b == coordinates[2]
           looksLikeLatLng == abs(a) <= 90 /\ abs(b) <= 180
       IN IF looksLikeLatLng THEN <<b, a>> ELSE coordinates
  ELSE coordinates

\* the codes of the stored branches
branchCodes(docs) == {docs[i].code : i \in 1..Len(docs)}

BranchResponse(status, body, data) == [code |-> status, body |-> body, data |-> data]

NoBranchDoc == [code |-> Empty, coordinates |-> <<>>]

NoBody == [code |-> Empty, lat |-> JAbsent, lng |-> JAbsent, latitude |-> JAbsent,
           longitude |-> JAbsent, location |-> NoLocation]

NoBranchResp == BranchResponse(0, NoBody, NoBranchDoc)

\* POST /api/branches: auth, requireAdmin, then the body's code is trimmed and
\* put in upper case, its flat coordinates mapped, and Branch.create casts,
\* validates (a code is required, coordinates are numbers, two of them: the
\* bodies explored all carry coordinates), runs the guard and inserts, the code
\* being unique
CreateBranch(caller, body) ==
  LET code == IF body.code # Empty THEN toUpperCase(trim(body.code)) ELSE body.code
      location == bodyLocation(body)
      castFails == \E i \in 1..Len(location.coordinates) : location.coordinates[i].nan
      numbers == [i \in 1..Len(location.coordinates) |-> location.coordinates[i].n]
      invalid == code = Empty \/ Len(numbers) # 2
      doc == [code |-> code, coordinates |-> preSaveLocation(numbers)]
      status == IF caller = NoUser THEN 401
                ELSE IF ~IsPriv(caller) THEN 403
                ELSE IF castFails \/ invalid THEN 400
                ELSE IF code \in branchCodes(branchDocs) THEN 409
                ELSE 201
  IN /\ branchDocs' = IF status = 201 THEN Append(branchDocs, doc) ELSE branchDocs
     /\ branchResp' = BranchResponse(status, body, IF status = 201 THEN doc ELSE NoBranchDoc)

----------------------------------------------------------------------------
(* The requests explored *)

\* A chassis is submitted in lower case and the branch B with a trailing blank,
\* so that upper-casing and trimming act. Left out as repetitions of a body
\* that is explored: a target branch on add and invoice, a source branch on
\* invoice, the action return (the code treats it as it treats invoice), and
\* all but one body without chassis number.
Bodies ==
  {b \in [chassisNo : {Empty, Chx},
          action : {"add", "transfer", "invoice"},
          sourceBranch : {Empty, BrA, BrB},
          targetBranch : {Empty, BrA, BrBsp}] :
     /\ b.chassisNo = Empty =>
          b.action = "add" /\ b.sourceBranch = Empty /\ b.targetBranch = Empty
     /\ b.action \in {"add", "invoice"} => b.targetBranch = Empty
     /\ b.action = "invoice" => b.sourceBranch = Empty}

CreateRequests == [user : Users, body : Bodies]

\* PATCH bodies: each sets one of the mapped fields
Patches ==
  {[chassisNo |-> ChY], [action |-> "transfer"], [sourceBranch |-> Empty],
   [targetBranch |-> BrA], [transferStatus |-> "pending"]}

Ids == 1..MaxMovements

\* callers of the routes behind requireAdminOwner, which reads the role only
Guarded == {"admin", "staffb"}

Init ==
  /\ movements = <<>>
  /\ stock = {}
  /\ resp = NoResp
  /\ patches = 0
  /\ handlers = [h \in Handlers |-> IdleHandler]
  /\ recentSerials = <<>>
  /\ now = 0
  /\ submissions = <<>>
  /\ authCall = NoCall
  /\ users = {}
  /\ userSeq = 0
  /\ userResp = NoUserResp
  /\ userClock = 0
  /\ issued = {}
  /\ spent = {}
  /\ remarks = {}
  /\ remarkResp = NoRemarkResp
  /\ announcements = <<>>
  /\ annResp = NoAnnouncementResp
  /\ annClock = 0
  /\ gasCall = NoExchange
  /\ webhookCache = <<>>
  /\ cachePending = <<>>
  /\ cacheResp = NoForward
  /\ cacheNow = 0
  /\ forwardedAt = <<>>
  /\ pendingResp = NoPendingResp
  /\ csvCall = NoSerialAnswer
  /\ reserved = <<>>
  /\ reserveResp = NoReserve
  /\ reqCall = NoRequest
  /\ snapshotFault = FALSE
  /\ normCall = NoKeys
  /\ resolvers = [h \in Handlers |-> IdleResolver]
  /\ resolutions = <<>>
  /\ currentResp = NoCurrentResp
  /\ branchDocs = <<>>
  /\ branchResp = NoBranchResp

\* what the stock routes taken one request at a time leave alone
notStock == <<raceVars, hookVars, authVars, userVars, remarkVars, annVars, gasVars, cacheVars, pendingVars, csvVars, reserveVars, answerVars, faultVars, normVars, resolveVars, currentVars, branchVars>>

\* what the POST / handlers leave alone, beyond the stock routes' state
notRace == <<hookVars, authVars, userVars, remarkVars, annVars, gasVars, cacheVars, pendingVars, csvVars, reserveVars, answerVars, faultVars, normVars, resolveVars, currentVars, branchVars>>

\* what the webhook proxy leaves alone
notHook == <<stockVars, raceVars, authVars, userVars, remarkVars, annVars, gasVars, cacheVars, pendingVars, csvVars, reserveVars, answerVars, faultVars, normVars, resolveVars, currentVars, branchVars>>

\* what auth and the guards leave alone
notAuth == <<stockVars, raceVars, hookVars, userVars, remarkVars, annVars, gasVars, cacheVars, pendingVars, csvVars, reserveVars, answerVars, faultVars, normVars, resolveVars, currentVars, branchVars>>

\* what the user routes leave alone
notUsers == <<stockVars, raceVars, hookVars, authVars, remarkVars, annVars, gasVars, cacheVars, pendingVars, csvVars, reserveVars, answerVars, faultVars, normVars, resolveVars, currentVars, branchVars>>

\* what the remark routes leave alone
notRemarks == <<stockVars, raceVars, hookVars, authVars, userVars, annVars, gasVars, cacheVars, pendingVars, csvVars, reserveVars, answerVars, faultVars, normVars, resolveVars, currentVars, branchVars>>

\* what the announcement routes leave alone
notAnn == <<stockVars, raceVars, hookVars, authVars, userVars, remarkVars, gasVars, cacheVars, pendingVars, csvVars, reserveVars, answerVars, faultVars, normVars, resolveVars, currentVars, branchVars>>

\* what the stock proxy leaves alone
notGas == <<stockVars, raceVars, hookVars, authVars, userVars, remarkVars, annVars, cacheVars, pendingVars, csvVars, reserveVars, answerVars, faultVars, normVars, resolveVars, currentVars, branchVars>>

\* what the cache of GET forwards leaves alone
notCache == <<stockVars, raceVars, hookVars, authVars, userVars, remarkVars, annVars, gasVars, pendingVars, csvVars, reserveVars, answerVars, faultVars, normVars, resolveVars, currentVars, branchVars>>

\* what the listing of pending transfers leaves alone
notPending == <<stockVars, raceVars, hookVars, authVars, userVars, remarkVars, annVars, gasVars, cacheVars, csvVars, reserveVars, answerVars, faultVars, normVars, resolveVars, currentVars, branchVars>>

\* what the next-serial routes leave alone
notCsv == <<stockVars, raceVars, hookVars, authVars, userVars, remarkVars, annVars, gasVars, cacheVars, pendingVars, reserveVars, answerVars, faultVars, normVars, resolveVars, currentVars, branchVars>>

\* what the reserve routes leave alone
notReserve == <<stockVars, raceVars, hookVars, authVars, userVars, remarkVars, annVars, gasVars, cacheVars, pendingVars, csvVars, answerVars, faultVars, normVars, resolveVars, currentVars, branchVars>>

\* everything but the request on its way through a handler
notAnswer == <<stockVars, raceVars, hookVars, authVars, userVars, remarkVars, annVars, gasVars, cacheVars, pendingVars, csvVars, reserveVars, faultVars, normVars, resolveVars, currentVars, branchVars>>

\* what the stock routes with a failing Stock write leave alone, beyond the stock routes' state
notFault == <<raceVars, hookVars, authVars, userVars, remarkVars, annVars, gasVars, cacheVars, pendingVars, csvVars, reserveVars, answerVars, normVars, resolveVars, currentVars, branchVars>>

\* everything but the names being normalised
notNorm == <<stockVars, raceVars, hookVars, authVars, userVars, remarkVars, annVars, gasVars, cacheVars, pendingVars, csvVars, reserveVars, answerVars, faultVars, resolveVars, currentVars, branchVars>>

\* what the admit and reject handlers leave alone, beyond the stock routes' state
notResolve == <<raceVars, hookVars, authVars, userVars, remarkVars, annVars, gasVars, cacheVars, pendingVars, csvVars, reserveVars, answerVars, faultVars, normVars, currentVars, branchVars>>

\* what the listing of the current stock leaves alone
notCurrent == <<stockVars, raceVars, hookVars, authVars, userVars, remarkVars, annVars, gasVars, cacheVars, pendingVars, csvVars, reserveVars, answerVars, faultVars, normVars, resolveVars, branchVars>>

\* what the branch routes leave alone
notBranch == <<stockVars, raceVars, hookVars, authVars, userVars, remarkVars, annVars, gasVars, cacheVars, pendingVars, csvVars, reserveVars, answerVars, faultVars, normVars, resolveVars, currentVars>>

\* The transfer workflow: every caller creates, admits and rejects, and
\* movements are soft-deleted.
Next ==
  \/ \E r \in CreateRequests : Create(r.user, r.body) /\ UNCHANGED notStock
  \/ \E u \in Users, id \in Ids : Admit(u, id) /\ UNCHANGED notStock
  \/ \E u \in Users, id \in Ids : Reject(u, id) /\ UNCHANGED notStock
  \/ \E u \in Guarded, id \in Ids : Delete(u, id) /\ UNCHANGED notStock

Spec == Init /\ [][Next]_vars

\* The privileged caller's requests, PATCH among them: what the admin creates,
\* admits, rejects, edits and soft-deletes, and the 403 of the guard.
NextPatch ==
  \/ \E r \in CreateRequests :
       r.user = "admin" /\ Create(r.user, r.body) /\ UNCHANGED notStock
  \/ \E id \in Ids : Admit("admin", id) /\ UNCHANGED notStock
  \/ \E id \in Ids : Reject("admin", id) /\ UNCHANGED notStock
  \/ \E u \in Guarded, id \in Ids, patch \in Patches :
       Patch(u, id, patch) /\ UNCHANGED notStock
  \/ \E u \in Guarded, id \in Ids : Delete(u, id) /\ UNCHANGED notStock

SpecPatch == Init /\ [][NextPatch]_vars

\* POST / requests running at the same time: two handlers, each at one of
\* its awaits, and admits and rejects between their steps.
NextRace ==
  \/ \E h \in Handlers, r \in CreateRequests :
       RaceCheck(h, r.user, r.body) /\ UNCHANGED notRace
  \/ \E h \in Handlers : RaceInsert(h) /\ UNCHANGED notRace
  \/ \E h \in Handlers : RaceApply(h) /\ UNCHANGED notRace
  \/ \E id \in Ids : Admit("admin", id) /\ UNCHANGED notStock

SpecRace == Init /\ [][NextRace]_vars

\* The webhook proxy: submissions to either route, the external webhook's
\* answers (in any order, at any time) and the clock.
HookRoutes == {"booking", "jobcard"}

NextHook ==
  \/ \E route \in HookRoutes, webhookUrl \in BOOLEAN, payload \in Payloads :
       HookSubmit(route, webhookUrl, payload) /\ UNCHANGED notHook
  \/ \E i \in 1..MaxSubmissions, ok \in BOOLEAN : HookAnswer(i, ok) /\ UNCHANGED notHook
  \/ HookTick /\ UNCHANGED notHook

SpecHook == Init /\ [][NextHook]_vars

\* the requests explored: the five sources filled by at most two values
TokProd == jwtSign(IdU1, "prod", MaxClock, TRUE, FALSE)
TokGhost == jwtSign(IdGhost, "prod", MaxClock, TRUE, FALSE)
TokForged == jwtSign(IdU1, "forged", MaxClock, TRUE, FALSE)

FieldValues == {Absent, Blank, Repeated(TokProd), Str(TokProd), Str(TokGhost), Str(TokForged)}

Headers ==
  {NoHeader,
   [scheme |-> Bearer, cred |-> NoToken, long |-> FALSE],
   [scheme |-> Bearer, cred |-> TokForged, long |-> FALSE],
   [scheme |-> Basic, cred |-> TokForged, long |-> FALSE]}
  \cup [scheme : {Empty, Bearer, bearer, Basic}, cred : {TokProd, TokForged}, long : {TRUE}]

Filled(req) ==
  Cardinality({f \in {"queryToken", "queryTokenkey", "bodyToken", "bodyTokenkey"} :
                 req[f] # Absent})
  + (IF req.header # NoHeader THEN 1 ELSE 0)

ShapeRequests ==
  {req \in [header : Headers, queryToken : FieldValues, queryTokenkey : FieldValues,
            bodyToken : FieldValues, bodyTokenkey : FieldValues, hasBody : BOOLEAN] :
     /\ Filled(req) <= 2
     /\ ~req.hasBody => req.bodyToken = Absent /\ req.bodyTokenkey = Absent}

\* tokens of every age, signature and owner, sent as a Bearer header
RichTokens ==
  {jwtSign(IdU1, "prod", at, stamped, expired) :
     at \in 0..MaxClock, stamped \in BOOLEAN, expired \in BOOLEAN}
  \cup {jwtSign(id, key, MaxClock, TRUE, FALSE) :
          id \in {IdU1, IdGhost, IdBad, NoId}, key \in {"prod", DEFAULT_SECRET, "forged"}}

BearerRequests ==
  {[header |-> [scheme |-> Bearer, cred |-> t, long |-> TRUE], queryToken |-> Absent,
    queryTokenkey |-> Absent, bodyToken |-> Absent, bodyTokenkey |-> Absent,
    hasBody |-> TRUE] : t \in RichTokens}

StoredUser(role, cutoff) ==
  [stored |-> TRUE, id |-> IdU1, role |-> role, tokenInvalidAfter |-> cutoff]

ShapeDbs == {NoUserDoc, StoredUser(RoleAdmin, NoCutoff), StoredUser(RoleStaff, NoCutoff)}

AuthDbs ==
  {NoUserDoc}
  \cup {StoredUser(role, NoCutoff) :
          role \in {RoleAdmin, RoleAdminCap, RoleOwner, RoleBackend, RoleStaff, RoleUser, Empty}}
  \cup {StoredUser(RoleStaff, cutoff) : cutoff \in 0..MaxClock}

AuthInputs ==
  [req : ShapeRequests, db : ShapeDbs] \cup [req : BearerRequests, db : AuthDbs]

Secrets == {"", DEFAULT_SECRET, "prod"}

NextAuth ==
  \/ /\ authCall.stage = "idle"
     /\ \E mw \in {"simple", "full"}, inp \in AuthInputs, secret \in Secrets :
          Authenticate(mw, inp.req, secret, inp.db) /\ UNCHANGED notAuth
  \/ /\ authCall.stage = "authed"
     /\ \E route \in GuardedRoutes, open \in {"", "true"}, dbDown \in BOOLEAN :
          Guard(route, open, dbDown) /\ UNCHANGED notAuth
  \/ AuthEnd /\ UNCHANGED notAuth

SpecAuth == Init /\ [][NextAuth]_vars

\* The public user routes in their three variants of POST /register. Login
\* is left out: it writes lastLoginAt only.
UserBody(email, phone, role, status, primaryBranch, branches) ==
  [name |-> Nm, email |-> email, phone |-> phone, password |-> Pw1, role |-> role,
   status |-> status, primaryBranch |-> primaryBranch, branches |-> branches]

\* a body asks for nothing, for the admin role, for a status and branches, or
\* for all of them
Assignments ==
  {[status |-> Empty, primaryBranch |-> Empty, branches |-> <<>>],
   [status |-> StatusSuspended, primaryBranch |-> BranchId, branches |-> <<BranchId>>]}

PublicBodies ==
  {UserBody(email, Empty, role, a.status, a.primaryBranch, a.branches) :
     email \in {EmA, EmB}, role \in {Empty, RoleAdmin}, a \in Assignments}

NextPublic ==
  \/ \E variant \in RegisterVariants, body \in PublicBodies :
       Register(variant, body) /\ UNCHANGED notUsers
  \/ \E email \in {EmA, EmB}, rawToken \in RawTokens :
       ForgotPassword(email, rawToken) /\ UNCHANGED notUsers
  \/ \E token \in RawTokens :
       ResetPassword(token, Pw2) /\ UNCHANGED notUsers

SpecPublic == Init /\ [][NextPublic]_vars

\* Password reset: users register, ask for a reset link, present tokens,
\* and time passes.
ResetBodies == {UserBody(email, Empty, Empty, Empty, Empty, <<>>) : email \in {EmA, EmB}}

ResetTokens == RawTokens \cup {<<"r", "1", " ">>, Empty}

NextReset ==
  \/ \E body \in ResetBodies : Register("latest", body) /\ UNCHANGED notUsers
  \/ \E email \in {EmASp, EmB, Empty}, rawToken \in RawTokens :
       ForgotPassword(email, rawToken) /\ UNCHANGED notUsers
  \/ \E token \in ResetTokens, password \in {Pw1, Pw2, Empty} :
       ResetPassword(token, password) /\ UNCHANGED notUsers
  \/ UserTick /\ UNCHANGED notUsers

SpecReset == Init /\ [][NextReset]_vars

\* The operations that write email and phone: register, admin create, admin
\* full update, role patch and delete.
ContactBodies ==
  {UserBody(email, phone, Empty, Empty, Empty, <<>>) :
     email \in {EmA, EmASp, EmB}, phone \in {Empty, Ph1, Ph1Sp}}

PutBodies ==
  {[email |-> email, phone |-> phone, role |-> Empty, password |-> Empty] :
     email \in {Empty, EmASp, EmB}, phone \in {Empty, Ph1Sp, Ph0}}

PatchBodies ==
  {[role |-> role, primaryBranch |-> pb] :
     role \in {Empty, RoleAdmin, <<"x">>}, pb \in {Empty, BranchId}}

UserIds == 1..MaxUsers

NextUsers ==
  \/ \E body \in ContactBodies : Register("latest", body) /\ UNCHANGED notUsers
  \/ \E body \in ContactBodies : AdminCreate(body) /\ UNCHANGED notUsers
  \/ \E id \in UserIds, body \in PutBodies : AdminUpdate(id, body) /\ UNCHANGED notUsers
  \/ \E id \in UserIds, body \in PatchBodies : PatchUser(id, body) /\ UNCHANGED notUsers
  \/ \E id \in UserIds : DeleteUser(id) /\ UNCHANGED notUsers

SpecUsers == Init /\ [][NextUsers]_vars

\* The remark upserts: two kinds (one capitalised), two refIds (one padded),
\* two levels (one capitalised), a padded text and one longer than the limit;
\* and one upsert for each thing the route refuses
RemarkBodies ==
  {RemarkBody(k, id, lv, t) :
     k \in {KindQuotation, KindBookingCap},
     id \in {Ref1Sp, Ref2},
     lv \in {LevelOk, LevelAlertCap},
     t \in {TextShortSp, TextLong}}
  \cup {RemarkBody(KindInvoice, Ref2, LevelOk, TextShortSp),
        RemarkBody(KindQuotation, <<" ">>, LevelOk, TextShortSp),
        RemarkBody(KindQuotation, Ref2, LevelInfo, TextShortSp)}

NextRemarks ==
  \E body \in RemarkBodies : UpsertRemark(body, IdU1) /\ UNCHANGED notRemarks

SpecRemarks == Init /\ [][NextRemarks]_vars

AnnTitle == <<"T">>
AnnText == <<"t">>

AnnouncementBody(title, body, type, expiresInDays) ==
  [title |-> title, body |-> body, type |-> type, expiresInDays |-> expiresInDays]

\* The announcements created: without a type, with and without a number of
\* days (one negative, one no number); and one of each kind the route refuses
AnnouncementBodies ==
  {AnnouncementBody(AnnTitle, AnnText, Empty, days) :
     days \in {Empty, <<"1">>, <<"-", "1">>, <<"x">>}}
  \cup {AnnouncementBody(AnnTitle, AnnText, LevelAlertCap, <<"1">>),
        AnnouncementBody(AnnTitle, AnnText, KindInvoice, Empty),
        AnnouncementBody(Empty, AnnText, Empty, Empty)}

\* the ids in the path: the two announcements, and a string that is no id
AnnouncementIds == {AnnouncementId(1), AnnouncementId(2), IdBad}

\* the limits in the query: none, one, zero, a negative one, no number
LimitQueries == {Empty, <<"1">>, <<"0">>, <<"-", "1">>, <<"x">>}

\* the updates of what the public list looks at
VisibilityUpdates ==
  {[active |-> TRUE], [active |-> FALSE], [expiresAt |-> 1],
   [type |-> KindInvoice, expiresAt |-> ExpNull],
   ("$unset" :> {"expiresAt"})}

\* the updates of acknowledgedBy: emptied, and set to one user twice
AcknowledgedUpdates ==
  {[acknowledgedBy |-> <<>>], [acknowledgedBy |-> <<IdU1, IdU1>>]}

\* The public list over announcements that are created, updated, disabled
\* and that expire
NextAnnPublic ==
  \/ \E body \in AnnouncementBodies : CreateAnnouncement(body, IdU1) /\ UNCHANGED notAnn
  \/ \E id \in AnnouncementIds, body \in VisibilityUpdates :
       UpdateAnnouncement(id, body) /\ UNCHANGED notAnn
  \/ \E id \in AnnouncementIds : DeleteAnnouncement(id) /\ UNCHANGED notAnn
  \/ \E q \in LimitQueries : PublicList(q) /\ UNCHANGED notAnn
  \/ AnnouncementTick /\ UNCHANGED notAnn

SpecAnnPublic == Init /\ [][NextAnnPublic]_vars

\* The acknowledgements of two users, among the operations that write an
\* announcement
NextAnnAck ==
  \/ CreateAnnouncement(AnnouncementBody(AnnTitle, AnnText, Empty, Empty), IdU1)
       /\ UNCHANGED notAnn
  \/ \E id \in AnnouncementIds, userId \in {IdU1, IdGhost} :
       Acknowledge(id, userId) /\ UNCHANGED notAnn
  \/ \E id \in AnnouncementIds, body \in AcknowledgedUpdates \cup {[active |-> TRUE]} :
       UpdateAnnouncement(id, body) /\ UNCHANGED notAnn
  \/ \E id \in AnnouncementIds : DeleteAnnouncement(id) /\ UNCHANGED notAnn

SpecAnnAck == Init /\ [][NextAnnAck]_vars

\* The payloads: an update (in two cases), a delete and no action; the id
\* under movementId or, padded, under id; the chassis under either name, not
\* at all, or blank
GasPayloads ==
  {GasPayload(a, ids[1], ids[2], ch[1], ch[2]) :
     a \in {ActUpdate, ActUpdateCap, ActDelete, Empty},
     ids \in {<<Mv1, Empty>>, <<Empty, Mv1Sp>>},
     ch \in {<<Chx, Empty>>, <<Empty, ChX>>, <<Empty, Empty>>, <<<<" ">>, Empty>>}}

MsgNotFound ==
  <<"M", "o", "v", "e", "m", "e", "n", "t", " ", "n", "o", "t", " ", "f", "o", "u", "n", "d",
    ":", "7">>
MsgLocked == <<"l", "o", "c", "k", "e", "d">>

\* what the app answers to a POST: a failure of the call, a success, the
\* stale id reported (with ok false, and without ok), another refusal, null
PostAnswers ==
  {GasThrew, GasNull,
   GasAnswer(FALSE, TRUE, "true", Empty, <<>>),
   GasAnswer(FALSE, TRUE, "false", MsgNotFound, <<>>),
   GasAnswer(FALSE, TRUE, "none", MsgNotFound, <<>>),
   GasAnswer(FALSE, TRUE, "false", MsgLocked, <<>>)}

\* what the app answers to 'current': a failure, no row, a row of another
\* chassis before the row of the chassis with a new id, the row with the id
\* attempted, the row with its id under movementId
CurrentAnswers ==
  {GasThrew,
   GasAnswer(FALSE, TRUE, "true", Empty, <<>>),
   GasAnswer(FALSE, TRUE, "true", Empty, <<GasRow(ChY, Mv1, Empty), GasRow(Chx, Mv2, Empty)>>),
   GasAnswer(FALSE, TRUE, "true", Empty, <<GasRow(ChX, Mv1, Empty)>>),
   GasAnswer(FALSE, TRUE, "true", Empty, <<GasRow(ChX, Empty, Mv2)>>)}

\* what the app answers to 'list'
ListAnswers ==
  {GasThrew,
   GasAnswer(FALSE, TRUE, "true", Empty, <<>>),
   GasAnswer(FALSE, TRUE, "true", Empty, <<GasRow(ChX, Empty, Mv2)>>),
   GasAnswer(FALSE, TRUE, "true", Empty, <<GasRow(ChX, Empty, Mv1Sp)>>)}

\* One POST to the proxy at a time, with every answer of the external app
NextGas ==
  \/ /\ gasCall.stage = "idle"
     /\ \E payload \in GasPayloads, first \in PostAnswers, current \in CurrentAnswers,
           list \in ListAnswers, retry \in PostAnswers :
          ProxyPost(payload, first, current, list, retry)
     /\ UNCHANGED notGas
  \/ ProxyEnd /\ UNCHANGED notGas

SpecGas == Init /\ [][NextGas]_vars

\* The forwards of a few requests: with and without a webhookUrl, with no
\* payload, the empty one and another, as GET, as POST and with no method;
\* the webhook answers 200, with and without a body, or 500
NextCache ==
  \/ /\ \E webhookUrl \in {Url1, Empty}, payload \in {PayloadNone, PayloadEmpty, 1},
           method \in {MethodGet, MethodPost, Empty} :
          CacheRequest(webhookUrl, payload, method)
     /\ UNCHANGED notCache
  \/ /\ \E i \in DOMAIN cachePending, status \in {200, 500}, data \in {Data1, Empty} :
          CacheAnswer(i, status, data)
     /\ UNCHANGED notCache
  \/ CacheTick(MaxCacheClock) /\ UNCHANGED notCache

SpecCache == Init /\ [][NextCache]_vars

\* The cache filled: GET forwards of one payload after the other, each
\* answered 200 four seconds later, until the cache overflows
NextCacheFill ==
  \/ /\ cachePending = <<>>
     /\ Cardinality(DOMAIN forwardedAt) < MaxFill
     /\ CacheRequest(Url2, Cardinality(DOMAIN forwardedAt) + 1, MethodGet)
     /\ UNCHANGED notCache
  \/ /\ cachePending # <<>>
     /\ cacheNow = cachePending[1].at
     /\ CacheTick(MaxFill)
     /\ UNCHANGED notCache
  \/ /\ cachePending # <<>>
     /\ cacheNow > cachePending[1].at
     /\ CacheAnswer(1, 200, Data1)
     /\ UNCHANGED notCache

SpecCacheFill == Init /\ [][NextCacheFill]_vars

\* the transfers of two chassis, one to a branch and one to either branch
TransferBodies ==
  {[chassisNo |-> Chx, action |-> "transfer", sourceBranch |-> Empty, targetBranch |-> BrA],
   [chassisNo |-> ChY, action |-> "transfer", sourceBranch |-> Empty, targetBranch |-> BrA],
   [chassisNo |-> ChY, action |-> "transfer", sourceBranch |-> Empty,
    targetBranch |-> BrBsp]}

\* the branch in the query: none, a branch padded, all, and a name without a
\* letter or a digit
BranchQueries == {Empty, BrBsp, BranchAllCap, <<"-">>}

\* The pending transfers listed for every caller, a guest included, while an
\* admin creates, admits and deletes transfers
NextPending ==
  \/ \E body \in TransferBodies : Create("admin", body) /\ UNCHANGED notStock
  \/ \E id \in Ids : Admit("admin", id) /\ UNCHANGED notStock
  \/ \E id \in Ids : Delete("admin", id) /\ UNCHANGED notStock
  \/ \E caller \in Users \cup {NoUser}, branch \in BranchQueries, q \in {Empty, <<"1">>} :
       PendingList(caller, branch, q) /\ UNCHANGED notPending

SpecPending == Init /\ [][NextPending]_vars

\* the lines of a text joined, each ended by a line feed
RECURSIVE Lines(_)
Lines(ls) == IF ls = <<>> THEN <<>> ELSE Head(ls) \o <<NewLine>> \o Lines(Tail(ls))

\* the header lines: the serial in the first or in the second column under
\* names the routes know, a column that only has serial in its name, and no
\* serial column at all
CsvHeaders ==
  {<<"s", "e", "r", "i", "a", "l", " ", " ", "n", "o", ".", ",", "n", "a", "m", "e">>,
   <<"n", "a", "m", "e", ",", "j", "o", "b", " ", "c", "a", "r", "d", " ", "n", "o">>,
   <<"n", "a", "m", "e", ",", "q", "u", "o", "t", "e", "i", "d">>,
   <<"M", "y", " ", "s", "e", "r", "i", "A", "l", "s", ",", "n", "a", "m", "e">>,
   <<"n", "a", "m", "e", ",", "p", "h", "o", "n", "e">>}

\* one line of data: the same cell in both columns, a number, a number
\* quoted and padded, a serial with letters, an empty cell
CsvLines ==
  {<<"5", ",", "5">>, <<"1", "2", ",", "1", "2">>,
   <<Quote, " ", "7", " ", Quote, ",", " ", "7">>,
   <<"Q", "-", "9", ",", "Q", "-", "9">>,
   <<",">>}

\* the texts: a header and up to MaxCsvRows lines of data, in every order;
\* and the empty text
CsvTexts ==
  {<<>>}
  \cup {Lines(<<h>> \o ls) :
          h \in CsvHeaders,
          ls \in UNION {[1..n -> CsvLines] : n \in 0..MaxCsvRows}}

NextCsv ==
  \/ /\ csvCall.stage = "idle"
     /\ \E kind \in {KindQuotation, KindJobcard}, csvUrl \in BOOLEAN, csv \in CsvTexts :
          NextSerialRoute(kind, csvUrl, csv)
     /\ UNCHANGED notCsv
  \/ NextSerialEnd /\ UNCHANGED notCsv

SpecCsv == Init /\ [][NextCsv]_vars

Mobile10 == <<"9", "8", "7", "6", "5", "4", "3", "2", "1", "0">>

\* the bodies: a mobile with and without a country code, one too short; the
\* branch by its code, in any case and padded, or by its id, or not at all
ReserveBodies ==
  {ReserveBody(m, b[1], b[2]) :
     m \in {Mobile10, <<"+", "9", "1", " ">> \o Mobile10, <<"9", "8">>},
     b \in {<<<<" ", "H", "b", "L">>, Empty>>, <<Empty, BranchId>>, <<Empty, IdGhost>>,
            <<Empty, Empty>>}}

\* what the generator draws: two ULIDs of one millisecond, that differ in
\* their last characters or not; two draws of 4 random bytes
Ulids ==
  {[i \in 1..20 |-> "0"] \o tail : tail \in {<<"7", "Z", "X", "4", "K", "9">>,
                                              <<"7", "Z", "X", "4", "K", "A">>}}

RandomBytes == {<<"0", "0", "a", "b", "0", "1", "b", "a">>,
                <<"0", "0", "a", "b", "0", "1", "b", "b">>}

NextReserve ==
  \E kind \in {KindJobcard, KindQuotation}, body \in ReserveBodies, ulidLoaded \in BOOLEAN,
     ulid \in Ulids, randomBytes \in RandomBytes :
    Reserve(kind, body, ulidLoaded, ulid, randomBytes) /\ UNCHANGED notReserve

SpecReserve == Init /\ [][NextReserve]_vars

\* the requests of the user routes: every combination of what is stored, of the
\* password and of the call that throws
UserRequests ==
  {RequestInput(tokenOk, exists, valid, throws, 0, 0) :
     tokenOk \in BOOLEAN, exists \in BOOLEAN, valid \in BOOLEAN,
     throws \in {ThrowsNothing, ThrowsFindOne, ThrowsHash, ThrowsSave, ThrowsCompare,
                 ThrowsFindById}}

\* the requests of POST /api/stocks: each return of the handler with each throw
StocksRequests ==
  {RequestInput(tokenOk, TRUE, TRUE, throws, r[1], r[2]) :
     tokenOk \in BOOLEAN,
     throws \in {ThrowsNothing, ThrowsFindById, ThrowsLast, ThrowsExistingStock,
                 ThrowsExistingPending, ThrowsCreate, ThrowsApply},
     r \in {<<2, 400>>, <<4, 400>>, <<4, 409>>, <<5, 400>>, <<5, 409>>, <<8, 201>>}}

NextAnswer ==
  \/ /\ \E route \in {RouteRegister, RouteLogin, RouteValidUser},
           framework \in {Express4, Express5}, in \in UserRequests :
          Receive(route, framework, in)
     /\ UNCHANGED notAnswer
  \/ /\ \E framework \in {Express4, Express5}, in \in StocksRequests :
          Receive(RouteStocks, framework, in)
     /\ UNCHANGED notAnswer
  \/ Handle /\ UNCHANGED notAnswer
  \/ AnswerEnd /\ UNCHANGED notAnswer

\* node runs a handler it has started
SpecAnswer == Init /\ [][NextAnswer]_vars /\ WF_vars(Handle /\ UNCHANGED notAnswer)

\* the bodies sent while the Stock write may throw: an add, a transfer, an
\* invoice, and one body that is refused
FallibleBodies ==
  {[chassisNo |-> Chx, action |-> "add", sourceBranch |-> BrA, targetBranch |-> Empty],
   [chassisNo |-> Chx, action |-> "transfer", sourceBranch |-> BrA, targetBranch |-> BrBsp],
   [chassisNo |-> Chx, action |-> "invoice", sourceBranch |-> Empty, targetBranch |-> Empty],
   [chassisNo |-> Empty, action |-> "add", sourceBranch |-> Empty, targetBranch |-> Empty]}

\* the PATCH bodies sent while the Stock write may throw
FalliblePatches == {[chassisNo |-> ChY], [targetBranch |-> BrA]}

NextFallible ==
  \/ /\ \E body \in FallibleBodies, writeFails \in BOOLEAN :
          CreateFallible("admin", body, writeFails)
     /\ UNCHANGED notFault
  \/ /\ \E u \in {"admin", "staffb"}, id \in Ids, writeFails \in BOOLEAN :
          AdmitFallible(u, id, writeFails)
     /\ UNCHANGED notFault
  \/ /\ \E id \in Ids, writeFails \in BOOLEAN :
          RejectFallible("admin", id, writeFails)
     /\ UNCHANGED notFault
  \/ /\ \E id \in Ids, patch \in FalliblePatches, writeFails \in BOOLEAN :
          PatchFallible("admin", id, patch, writeFails)
     /\ UNCHANGED notFault
  \/ /\ \E u \in Guarded, id \in Ids, writeFails \in BOOLEAN :
          DeleteFallible(u, id, writeFails)
     /\ UNCHANGED notFault

SpecFallible == Init /\ [][NextFallible]_vars

\* the characters of the names: letters in both cases, a digit, a blank,
\* punctuation, an accented letter
NameChars == {"A", "a", "b", "0", " ", "-", AAcute}

RECURSIVE NamesOfLen(_)
NamesOfLen(n) ==
  IF n = 0 THEN {<<>>}
  ELSE {<<c>> \o s : c \in NameChars, s \in NamesOfLen(n - 1)}

Names == UNION {NamesOfLen(n) : n \in 0..MaxNameLen}

NameValues == {Undefined} \cup {Defined(s) : s \in Names}

NextNorm ==
  \/ /\ \E a \in NameValues, b \in NameValues : Normalize(a, b)
     /\ UNCHANGED notNorm
  \/ NormalizeEnd /\ UNCHANGED notNorm

SpecNorm == Init /\ [][NextNorm]_vars

\* the bodies that put a transfer in front of the two handlers
ResolveBodies ==
  {[chassisNo |-> Chx, action |-> "add", sourceBranch |-> BrA, targetBranch |-> Empty],
   [chassisNo |-> Chx, action |-> "transfer", sourceBranch |-> BrA, targetBranch |-> BrBsp]}

\* a transfer is created, then admits and rejects of it arrive together
NextResolve ==
  \/ \E body \in ResolveBodies : Quiescent /\ Create("admin", body) /\ UNCHANGED notStock
  \/ \E h \in Handlers, op \in {"admit", "reject"}, u \in {"admin", "staffb"}, id \in Ids :
       ResolveRead(h, op, u, id) /\ UNCHANGED notResolve
  \/ \E h \in Handlers : ResolveSave(h) /\ UNCHANGED notResolve
  \/ \E h \in Handlers : ResolveApply(h) /\ UNCHANGED notResolve

SpecResolve == Init /\ [][NextResolve]_vars

NextHookFail ==
  \/ \E route \in HookRoutes, webhookUrl \in BOOLEAN, payload \in Payloads :
       HookSubmit(route, webhookUrl, payload) /\ UNCHANGED notHook
  \/ \E i \in 1..MaxSubmissions, ok \in BOOLEAN : HookAnswer(i, ok) /\ UNCHANGED notHook
  \/ \E i \in 1..MaxSubmissions : HookThrows(i) /\ UNCHANGED notHook
  \/ HookTick /\ UNCHANGED notHook

SpecHookFail == Init /\ [][NextHookFail]_vars

\* the bodies ahead of the listing: an add, a transfer of a chassis the ledger
\* does not know by a caller who names no source, an invoice
CurrentBodies ==
  {[chassisNo |-> Chx, action |-> "add", sourceBranch |-> BrA, targetBranch |-> Empty],
   [chassisNo |-> ChY, action |-> "transfer", sourceBranch |-> Empty, targetBranch |-> BrBsp],
   [chassisNo |-> Chx, action |-> "transfer", sourceBranch |-> Empty, targetBranch |-> BrBsp],
   [chassisNo |-> Chx, action |-> "invoice", sourceBranch |-> Empty, targetBranch |-> Empty]}

\* The current stock listed for every caller, a guest included, while an admin
\* creates, admits, rejects and deletes movements
NextCurrent ==
  \/ \E body \in CurrentBodies : Create("admin", body) /\ UNCHANGED notStock
  \/ \E id \in Ids : Admit("admin", id) /\ UNCHANGED notStock
  \/ \E id \in Ids : Reject("admin", id) /\ UNCHANGED notStock
  \/ \E id \in Ids : Delete("admin", id) /\ UNCHANGED notStock
  \/ \E caller \in {NoUser, "admin", "staffb"}, branch \in {Empty, BrA, BrBsp} :
       GetCurrent(caller, branch) /\ UNCHANGED notCurrent

SpecCurrent == Init /\ [][NextCurrent]_vars

\* the degrees submitted: the poles, the equator, the antimeridian, the two
\* sides of the guard's limit of 90, and a place in Karnataka (13 N, 77 E)
Lats == {-90, 0, 13, 90}
Lngs == {-180, -91, -90, 0, 13, 77, 91, 180}

CodeA == <<"a">>
\* both codes are stored as "A": one branch is created, later ones collide
CodeAsp == <<"A", " ">>

\* flat fields under either pair of names, as numbers
FlatBodies ==
  {[NoBody EXCEPT !.code = CodeA, !.lat = JNumber(lat), !.lng = JNumber(lng)] :
     lat \in Lats, lng \in Lngs}
  \cup
  {[NoBody EXCEPT !.code = CodeAsp, !.latitude = JNumber(lat), !.longitude = JNumber(lng)] :
     lat \in Lats, lng \in Lngs}

\* flat fields as strings, a null lat beside a latitude, a longitude that is
\* no number
StringBodies ==
  {[NoBody EXCEPT !.code = CodeA, !.lat = JString(<<"1", "3">>),
                  !.lng = JString(<<" ", "7", "7">>)],
   [NoBody EXCEPT !.code = CodeA, !.lat = JString(<<"-", "9", "0">>),
                  !.lng = JString(<<"-", "9", "1">>)],
   [NoBody EXCEPT !.code = CodeAsp, !.lat = JNull, !.latitude = JNumber(13),
                  !.lng = JNumber(77), !.longitude = JNumber(0)],
   [NoBody EXCEPT !.code = CodeA, !.lat = JNumber(13), !.lng = JString(<<"x">>)]}

\* a GeoJSON location (flat fields beside it are not read), one of three
\* coordinates, a body without a code
OtherBodies ==
  {[NoBody EXCEPT !.code = CodeA, !.location = Point(<<JNumber(91), JNumber(13)>>),
                  !.lat = JNumber(0), !.lng = JNumber(0)],
   [NoBody EXCEPT !.code = CodeA,
                  !.location = Point(<<JNumber(77), JNumber(13), JNumber(0)>>)],
   [NoBody EXCEPT !.lat = JNumber(13), !.lng = JNumber(77)]}

\* Branches created by an admin, and refused to a guest and to staff
NextBranch ==
  \/ \E body \in FlatBodies \cup StringBodies \cup OtherBodies :
       CreateBranch("admin", body) /\ UNCHANGED notBranch
  \/ \E caller \in {NoUser, "staffb"}, body \in StringBodies :
       CreateBranch(caller, body) /\ UNCHANGED notBranch

SpecBranch == Init /\ [][NextBranch]_vars

----------------------------------------------------------------------------
(* Vocabulary of the properties *)

Chassis == {ChX, ChY}

\* the chassis number a request body names, as stored
ChassisOf(body) == toUpperCase(trim(body.chassisNo))

\* the Stock documents of a chassis, reduced to status and branch
Snapshot(st, ch) == {[status |-> d.status, sourceBranch |-> d.sourceBranch] : d \in StockOf(st, ch)}

\* what the latest non-deleted movement of a chassis says the snapshot is
Derived(mv, ch) ==
  LET i == LatestIdx(mv, ch) IN
  IF i = 0 THEN {}
  ELSE IF mv[i].action \in {"add", "transfer"}
       THEN {[status |-> "in_stock", sourceBranch |-> deriveCurrentBranch(mv[i])]}
       ELSE {[status |-> "out", sourceBranch |-> Empty]}

\* the branch the ledger places a chassis at, empty when none
CurrentBranch(mv, ch) ==
  LET i == LatestIdx(mv, ch) IN IF i = 0 THEN Empty ELSE deriveCurrentBranch(mv[i])

\* the non-deleted pending transfers of a chassis
LivePending(mv, ch) ==
  {i \in 1..Len(mv) : /\ mv[i].chassisNo = ch /\ ~mv[i].deleted
                      /\ mv[i].action = "transfer" /\ mv[i].transferStatus = "pending"}

\* C1: every chassis has at most one Stock document, and its status and
\* sourceBranch are those derived from the chassis's latest non-deleted
\* movement (no document when there is none).
C1_SnapshotIsDerived ==
  \A ch \in Chassis :
    /\ Cardinality(StockOf(stock, ch)) <= 1
    /\ Snapshot(stock, ch) = Derived(movements, ch)

\* C1 (witness of the divergence): an admit was applied to a transfer that is
\* not the latest movement of its chassis.
C1_AdmitOfEarlierMovement ==
  /\ resp.op = "admit" /\ resp.code = 200
  /\ LatestIdx(movements, movements[resp.id].chassisNo) > resp.id

\* C2, as claimed: whatever requests were processed (PATCH among them), a
\* chassis never has two non-deleted pending transfers.
C2_OnePendingAlways ==
  \A ch \in Chassis : Cardinality(LivePending(movements, ch)) <= 1

\* the source branch POST / gives a transfer, and whether the transfer is
\* valid in itself (a target, and a source other than the target)
C2_Source(mv, u, body) ==
  LET cur == CurrentBranch(mv, ChassisOf(body))
      own == getBranchNameForUser(u)
  IN IF cur # Empty THEN cur
     ELSE trim(IF StaffLike(u) THEN own ELSE Or(body.sourceBranch, own))

C2_ValidTransfer(mv, u, body) ==
  /\ body.action = "transfer"
  /\ ChassisOf(body) # Empty
  /\ trim(body.targetBranch) # Empty
  /\ ~(C2_Source(mv, u, body) # Empty /\ C2_Source(mv, u, body) = trim(body.targetBranch))

\* C2 without PATCH: as long as no PATCH was processed, a chassis has at most one
\* non-deleted pending transfer; and in every state a valid create of a
\* transfer for a chassis that has one is answered 409 and stores nothing.
C2_OnePendingWithoutPatch ==
  [][/\ patches' = 0 => C2_OnePendingAlways'
     /\ (resp'.op = "create" /\ ~(resp'.code = 409 /\ UNCHANGED <<movements, stock>>))
          => \A ch \in Chassis :
               LivePending(movements, ch) # {} =>
                 \A u \in Users, body \in Bodies :
                   ~(/\ ChassisOf(body) = ch
                     /\ C2_ValidTransfer(movements, u, body)
                     /\ Create(u, body))]_vars

\* C2 witness: a transfer was answered 409 while the chassis has its pending
\* transfer, which is the only one.
C2_SecondTransferRefused ==
  /\ resp.op = "create" /\ resp.code = 409
  /\ patches = 0
  /\ Cardinality(LivePending(movements, ChX)) = 1
  /\ \E i \in 1..Len(movements) : movements[i].action = "add"

\* the transfer statuses from which no admit or reject leads anywhere
C3_Terminal == {"admitted", "rejected", "completed"}

\* C3: an admit or reject answers 200 only for a non-deleted pending transfer;
\* for a non-deleted transfer in a terminal status it answers 400 and changes
\* neither ledger nor snapshot; and the only status changes these two requests
\* make are pending -> admitted and pending -> rejected.
C3_ResolveOnlyPending ==
  [][\A u \in Users, id \in {resp'.id} :
       (resp'.op \in {"admit", "reject"} /\ (Admit(u, id) \/ Reject(u, id))) =>
         LET live == FindLive(movements, id) IN
         /\ resp'.code = 200 =>
              /\ live # {}
              /\ \A i \in live : /\ movements[i].action = "transfer"
                                 /\ movements[i].transferStatus = "pending"
         /\ (\E i \in live : /\ movements[i].action = "transfer"
                             /\ movements[i].transferStatus \in C3_Terminal)
              => (resp'.code = 400 /\ UNCHANGED <<movements, stock>>)
         /\ Len(movements') = Len(movements)
         /\ \A j \in 1..Len(movements) :
              movements'[j].transferStatus # movements[j].transferStatus =>
                /\ movements[j].transferStatus = "pending"
                /\ movements'[j].transferStatus =
                     (IF Admit(u, id) THEN "admitted" ELSE "rejected")]_vars

\* C3 witness: an admit or reject of an already resolved transfer got 400.
C3_SecondResolveRefused ==
  /\ resp.op \in {"admit", "reject"} /\ resp.code = 400
  /\ \E i \in FindLive(movements, resp.id) :
       /\ movements[i].action = "transfer"
       /\ movements[i].transferStatus \in {"admitted", "rejected"}
       /\ movements[i].resolvedBy # NoUser

\* C4: when POST / stores a transfer for a chassis the ledger places at a
\* branch A, the stored movement is pending with sourceBranch A, and the
\* chassis's snapshot is then in_stock at A.
C4_NewTransferStays ==
  [][\A u \in Users, body \in Bodies :
       LET ch == ChassisOf(body)
           A == CurrentBranch(movements, ch)
           new == movements'[Len(movements')]
       IN (/\ resp'.op = "create"
           /\ resp'.code = 201
           /\ new.action = "transfer"
           /\ A # Empty
           /\ Create(u, body))
          => /\ new.transferStatus = "pending"
             /\ new.sourceBranch = A
             /\ new.targetBranch # A
             /\ Snapshot(stock', ch) = {[status |-> "in_stock", sourceBranch |-> A]}]_vars

\* C4 witness: a transfer was created for a chassis that had been added.
C4_TransferCreated ==
  /\ resp.op = "create" /\ resp.code = 201 /\ resp.id = 2
  /\ movements[1].action = "add" /\ ~movements[1].deleted
  /\ movements[2].action = "transfer" /\ movements[2].transferStatus = "pending"
  /\ movements[2].sourceBranch = movements[1].sourceBranch
  /\ Snapshot(stock, ChX) = {[status |-> "in_stock", sourceBranch |-> movements[1].sourceBranch]}

\* C5: an accepted admit of a transfer to branch B by caller u leaves the
\* movement admitted with resolvedBy = u and the chassis's snapshot in_stock
\* at B, whatever movements the chassis got after the transfer.
C5_AdmitRelocates ==
  [][\A u \in Users, id \in {resp'.id} :
       (resp'.op = "admit" /\ resp'.code = 200 /\ Admit(u, id)) =>
         \A i \in FindLive(movements, id) :
           /\ movements[i].transferStatus = "pending"
           /\ movements'[i].transferStatus = "admitted"
           /\ movements'[i].resolvedBy = u
           /\ movements[i].targetBranch # Empty =>
                Snapshot(stock', movements[i].chassisNo) =
                  {[status |-> "in_stock", sourceBranch |-> movements[i].targetBranch]}]_vars

\* C5 witness: a transfer A -> B followed by a later movement of the same
\* chassis was admitted, and the snapshot is at B.
C5_AdmittedAfterLaterMovement ==
  /\ resp.op = "admit" /\ resp.code = 200 /\ resp.id = 1
  /\ movements[1].transferStatus = "admitted"
  /\ movements[1].sourceBranch # Empty
  /\ movements[1].resolvedBy = "staffb"
  /\ Len(movements) = 2 /\ ~movements[2].deleted
  /\ movements[2].chassisNo = movements[1].chassisNo
  /\ Snapshot(stock, ChX) = {[status |-> "in_stock", sourceBranch |-> movements[1].targetBranch]}

\* C6: an accepted reject of a transfer from branch A by caller u leaves the
\* movement rejected with resolvedBy = u and the chassis's snapshot at A.
C6_RejectStays ==
  [][\A u \in Users, id \in {resp'.id} :
       (resp'.op = "reject" /\ resp'.code = 200 /\ Reject(u, id)) =>
         \A i \in FindLive(movements, id) :
           /\ movements[i].transferStatus = "pending"
           /\ movements'[i].transferStatus = "rejected"
           /\ movements'[i].resolvedBy = u
           /\ movements[i].sourceBranch # Empty =>
                \E d \in StockOf(stock', movements[i].chassisNo) :
                  d.sourceBranch = movements[i].sourceBranch]_vars

\* C6 witness: a transfer A -> B of an added chassis was rejected and the
\* snapshot is at A.
C6_RejectedAtSource ==
  /\ resp.op = "reject" /\ resp.code = 200 /\ resp.id = 2
  /\ movements[1].action = "add"
  /\ movements[2].transferStatus = "rejected"
  /\ movements[2].resolvedBy # NoUser
  /\ movements[2].targetBranch # movements[2].sourceBranch
  /\ Snapshot(stock, ChX) = {[status |-> "in_stock", sourceBranch |-> movements[1].sourceBranch]}

\* the callers C7 allows to resolve transfer m: the roles admin, owner and
\* backend, and callers whose branch name has the key of m's target branch
C7_Allowed(u, m) ==
  \/ UserDoc(u).role \in {"admin", "owner", "backend"}
  \/ /\ getBranchNameForUser(u) # Empty
     /\ normalize(getBranchNameForUser(u)) = normalize(m.targetBranch)

\* C7: an admit or reject is accepted only from an allowed caller; any other
\* caller of a non-deleted pending transfer gets 403 and changes nothing.
C7_OnlyAllowedResolve ==
  [][\A u \in Users, id \in {resp'.id} :
       (resp'.op \in {"admit", "reject"} /\ (Admit(u, id) \/ Reject(u, id))) =>
         \A i \in FindLive(movements, id) :
           /\ resp'.code = 200 => C7_Allowed(u, movements[i])
           /\ (/\ movements[i].action = "transfer"
               /\ movements[i].transferStatus = "pending"
               /\ ~C7_Allowed(u, movements[i]))
              => (resp'.code = 403 /\ UNCHANGED <<movements, stock>>)]_vars

\* C7 witness: a caller was refused with 403 on a pending transfer whose
\* source is the branch of the one staff member who has a branch.
C7_Refused ==
  /\ resp.op \in {"admit", "reject"} /\ resp.code = 403
  /\ \E i \in FindLive(movements, resp.id) :
       /\ movements[i].transferStatus = "pending"
       /\ movements[i].sourceBranch = getBranchNameForUser("staffb")
       /\ movements[i].targetBranch = BrA

\* C8: after an accepted soft-delete the snapshot of the movement's chassis is
\* the one derived from the chassis's latest non-deleted movement, and there
\* is no Stock document when no movement of the chassis remains.
C8_DeleteRederives ==
  [][(resp'.op = "delete" /\ resp'.code = 200) =>
       \A i \in FindAny(movements, resp'.id) :
         Snapshot(stock', movements[i].chassisNo)
           = Derived(movements', movements[i].chassisNo)]_vars

\* C8 (the case that diverges): the soft-delete left a rejected or pending
\* transfer without source branch as the latest movement, and the snapshot
\* names a branch.
C8_StaleBranchKept ==
  /\ resp.op = "delete" /\ resp.code = 200
  /\ \E i \in FindAny(movements, resp.id) :
       LET ch == movements[i].chassisNo
           latest == LatestIdx(movements, ch)
       IN /\ latest # 0
          /\ movements[latest].action = "transfer"
          /\ ~transferAdmitted(movements[latest])
          /\ movements[latest].sourceBranch = Empty
          /\ \E d \in StockOf(stock, ch) : d.sourceBranch # Empty

\* the branch a POST / with action add asks for: the caller's own branch for a
\* staff-like caller, else the submitted source branch
C9_Requested(u, body) ==
  LET own == getBranchNameForUser(u) IN
  trim(IF StaffLike(u) THEN own ELSE Or(body.sourceBranch, own))

\* a chassis is in stock at branch A: its snapshot says so
C9_InStockAt(st, ch, A) ==
  Snapshot(st, ch) = {[status |-> "in_stock", sourceBranch |-> A]}

C10_AddBecomesTransfer ==
  [][resp'.op = "create" =>
       \A u \in Users, body \in Bodies :
         LET ch == ChassisOf(body)
             A == CurrentBranch(movements, ch)
             B == C9_Requested(u, body)
             new == movements'[Len(movements')]
         IN (/\ body.action = "add"
             /\ A # Empty /\ B # Empty /\ B # A
             /\ LivePending(movements, ch) = {}
             /\ Create(u, body))
            => /\ resp'.code = 201
               /\ Len(movements') = Len(movements) + 1
               /\ new.action = "transfer"
               /\ new.sourceBranch = A
               /\ new.targetBranch = B
               /\ new.autoNote]_vars

\* C10 witness: an add for another branch was stored as a noted transfer.
C10_Converted ==
  /\ resp.op = "create" /\ resp.code = 201 /\ resp.id = 2
  /\ movements[1].action = "add" /\ ~movements[1].deleted
  /\ movements[2].action = "transfer" /\ movements[2].autoNote
  /\ movements[2].sourceBranch = movements[1].sourceBranch
  /\ movements[2].targetBranch = BrB

\* the branch of the in-stock Stock document of a chassis, empty when none
C11_SnapshotBranch(st, ch) ==
  LET inStock == {d \in StockOf(st, ch) : d.status = "in_stock"} IN
  IF inStock = {} THEN Empty ELSE (CHOOSE d \in inStock : TRUE).sourceBranch

C12_PatchRederives ==
  [][(resp'.op = "patch" /\ resp'.code = 200) =>
       \A i \in FindAny(movements, resp'.id) :
         \A ch \in {movements[i].chassisNo, movements'[i].chassisNo} :
           Snapshot(stock', ch) = Derived(movements', ch)]_vars

\* C12 (the case that diverges): a PATCH moved the only movement of a chassis
\* to another chassis number, and the Stock document of the chassis it left is
\* still there.
C12_OldChassisStale ==
  /\ resp.op = "patch" /\ resp.code = 200
  /\ \E i \in FindAny(movements, resp.id) : movements[i].chassisNo = ChY
  /\ LatestIdx(movements, ChX) = 0
  /\ StockOf(stock, ChX) # {}

\* C13: a handler that passed the pending-transfer check inserts the movement
\* it holds whatever the ledger holds by then: the insert is not refused and
\* nothing is checked again, so a transfer is inserted as pending also when
\* the chassis got a pending transfer in between.
C13_CheckThenInsert ==
  [][\A h \in Handlers :
       (handlers[h].pc = "checked" /\ handlers'[h].pc # "checked") =>
         /\ handlers'[h].pc = "created"
         /\ Len(movements') = Len(movements) + 1
         /\ handlers'[h].payload = {movements'[Len(movements')]}
         /\ \A d \in handlers[h].payload :
              movements'[Len(movements')] = [d EXCEPT !.movementId = Len(movements')]]_vars

\* C13 witness: both handlers answered 201 and the chassis has two
\* non-deleted pending transfers.
C13_TwoPending ==
  /\ resp.op = "create" /\ resp.code = 201
  /\ \A h \in Handlers : handlers[h].pc = "idle"
  /\ Cardinality(LivePending(movements, ChX)) = 2
  /\ \E d \in StockOf(stock, ChX) : d.lastMovementId \in {1, 2}

\* the submissions for which the external webhook was called
C14_Called(i) == submissions[i].outcome \in {"forwarding", "forwarded", "502"}

\* C14: of the submissions with one serial that arrive less than the TTL
\* apart exactly one leads to a call of the external webhook: no two of them
\* both do, and a submission goes without a call only when an earlier one
\* with its serial, less than the TTL before it, led to one (so that after the
\* TTL the serial is forwarded again).
C14_OneCallPerWindow ==
  \A j \in DOMAIN submissions :
    LET near == {i \in 1..(j - 1) :
                   /\ submissions[i].serial = submissions[j].serial
                   /\ submissions[i].outcome # "400"
                   /\ submissions[j].at - submissions[i].at < IDEMPOTENCY_TTL_MS}
    IN (submissions[j].serial # "" /\ submissions[j].outcome # "400") =>
         /\ C14_Called(j) => \A i \in near : ~C14_Called(i)
         /\ ~C14_Called(j) => \E i \in near : C14_Called(i)

\* C14 (the case that diverges): two submissions of one serial, one to each
\* route, were both forwarded with success at the same tick.
C14_BothForwarded ==
  \E i, j \in DOMAIN submissions :
    /\ i < j
    /\ submissions[i].serial = "J1" /\ submissions[j].serial = "J1"
    /\ submissions[i].route # submissions[j].route
    /\ submissions[i].at = submissions[j].at
    /\ submissions[i].outcome = "forwarded" /\ submissions[j].outcome = "forwarded"

----------------------------------------------------------------------------
(* Authentication and the guards: vocabulary *)

\* the auth middleware has answered or handed on; no guard has run yet
AuthAnswered == authCall.stage \in {"authed", "answered"} /\ authCall.route = ""

AuthAccepted == AuthAnswered /\ authCall.stage = "authed"

AuthRejected ==
  /\ AuthAnswered
  /\ authCall.stage = "answered"
  /\ authCall.status = 401
  /\ authCall.message = "Token Invalid"

\* the token sources in the documented order, and the first that holds a token
Sources(req) ==
  <<headerToken(req.header), fieldToken(req.queryToken), fieldToken(req.queryTokenkey),
    IF req.hasBody THEN fieldToken(req.bodyToken) ELSE NoToken,
    IF req.hasBody THEN fieldToken(req.bodyTokenkey) ELSE NoToken>>

FirstToken(req) ==
  LET src == Sources(req)
      found == {i \in 1..Len(src) : src[i] # NoToken}
  IN  IF found = {} THEN NoToken
      ELSE src[CHOOSE i \in found : \A j \in found : i <= j]

\* the fullest middleware was handed a correctly signed, unexpired token
\* that carries a user id and an issued-at time
FullWithGoodToken ==
  /\ AuthAnswered
  /\ authCall.mw = "full"
  /\ verified(FirstToken(authCall.req), authCall.secret)
  /\ FirstToken(authCall.req).userId # NoId
  /\ FirstToken(authCall.req).stamped

----------------------------------------------------------------------------
(* C15 *)

----------------------------------------------------------------------------
(* C16 *)

\* C16: a handler behind the auth middleware runs only if a token was found
\* (Authorization header, then query token, query tokenkey, body token, body
\* tokenkey, in that order) and verified; in every other case the answer is
\* 401 'Token Invalid' and the handler is not invoked; on success req.userId
\* is the userId of the verified token.
C16_RunsOnlyWithVerifiedToken ==
  AuthAnswered =>
    LET tok == FirstToken(authCall.req)
        good == tok # NoToken /\ verified(tok, authCall.secret)
    IN  /\ AuthAccepted => good /\ authCall.userId = tok.userId
        /\ ~good => AuthRejected
        /\ AuthAccepted \/ AuthRejected

\* a request with one token in the query and another in the body has passed
\* as the user of the query's token
C16_QueryBeforeBody ==
  /\ AuthAccepted
  /\ authCall.req.header = NoHeader
  /\ authCall.req.queryToken = Str(TokGhost)
  /\ authCall.req.bodyToken = Str(TokProd)
  /\ authCall.userId = IdGhost

----------------------------------------------------------------------------
(* C17 *)

\* a guard has answered or run the handler
Guarded17 == authCall.stage \in {"handler", "answered"} /\ authCall.route # ""

\* the id the guard reads, and the user stored under it
CallerId == IF authCall.userId # NoId THEN authCall.userId ELSE authCall.bodyUserId

Caller == findById(authCall.db, CallerId)

OpenCrud == authCall.route = "users" /\ authCall.crudOpen = "true"

\* the stored role, in lower case, is admin, owner or backend
HasPrivilegedRole == toLowerCase(Caller.role) \in {RoleAdmin, RoleOwner, RoleBackend}

\* C17 as stated: the handler of a privileged route runs only for a stored
\* role of admin, owner or backend (or, on the user routes, with
\* USER_CRUD_OPEN 'true'); a caller whose id is no valid identifier or whose
\* user cannot be looked up gets 401, a caller with another role gets 403.
C17_InvalidOrMissingUser401 ==
  Guarded17 =>
    /\ authCall.stage = "handler" => (Caller.stored /\ HasPrivilegedRole) \/ OpenCrud
    /\ ~isObjectId(CallerId) => authCall.stage = "answered" /\ authCall.status = 401
    /\ isObjectId(CallerId) /\ ~OpenCrud /\ (authCall.dbDown \/ ~Caller.stored) =>
         authCall.stage = "answered" /\ authCall.status = 401
    /\ isObjectId(CallerId) /\ ~OpenCrud /\ ~authCall.dbDown /\ Caller.stored
         /\ ~HasPrivilegedRole =>
         authCall.stage = "answered" /\ authCall.status = 403

\* C17: the handler of a privileged route runs only for a stored role of
\* admin, owner or backend (in any case of letters), or on the user routes
\* with USER_CRUD_OPEN 'true' and a well-formed id. The guard answers 401 to
\* an id that is no 24 digit hex string (the remark guard: to an id that does
\* not cast; a request without id is answered 403 there) and when the lookup
\* throws; it answers 403 to every other caller, the one whose user is not
\* stored included. The handler does not run on 401 or 403.
C17_PrivilegedOnly ==
  Guarded17 =>
    LET badId == IF authCall.route = "remarks"
                 THEN CallerId # NoId /\ ~isObjectId(CallerId)
                 ELSE ~isObjectId(CallerId)
        open == OpenCrud /\ ~badId
        thrown == ~open /\ authCall.dbDown
        allowed == Caller.stored /\ HasPrivilegedRole
    IN  /\ authCall.stage = "handler" <=> ~badId /\ (open \/ (~thrown /\ allowed))
        /\ authCall.stage = "answered" => authCall.status \in {401, 403}
        /\ authCall.status = 401 <=> badId \/ thrown
        /\ authCall.status = 403 <=> ~badId /\ ~open /\ ~thrown /\ ~allowed

\* a stored staff user has been answered 403 on a stock route
C17_StaffForbidden ==
  /\ Guarded17
  /\ authCall.route = "stocks"
  /\ Caller.stored
  /\ Caller.role = RoleStaff
  /\ authCall.stage = "answered"
  /\ authCall.status = 403

----------------------------------------------------------------------------
(* C18 *)

\* C18 as stated: whatever role, status, primaryBranch or branches a public
\* registration submits, the stored user has the forced default role and no
\* submitted branch or status; no sequence of public requests produces a
\* user with role admin, owner or backend.
C18_PublicRegistrationForcesRole ==
  \A u \in users :
    /\ u.role \in {RoleUser, RoleStaff}
    /\ u.status = StatusActive
    /\ u.primaryBranch = Empty
    /\ u.branches = <<>>

\* a public registration has stored an admin
C18_AdminRegistered ==
  /\ userResp.op = "register"
  /\ \E u \in users : u.id = userResp.id /\ u.role = RoleAdmin /\ u.status = StatusSuspended

----------------------------------------------------------------------------
(* C19 *)

\* a step of POST /reset-password
ResetStep ==
  /\ userResp'.op = "reset"
  /\ userClock' = userClock
  /\ userSeq' = userSeq
  /\ issued' = issued

\* the users whose stored token is the hash of the token and not yet expired
LiveFor(token) ==
  {u \in users : /\ token # Empty
                 /\ u.resetPasswordToken = sha256(token)
                 /\ u.resetPasswordExpiresAt > userClock}

\* C19: reset-password changes a user's password only when the SHA-256 hash
\* of the submitted token is that user's stored resetPasswordToken and
\* resetPasswordExpiresAt is in the future; on success the token fields are
\* cleared; a second reset with the same token, and a token presented at or
\* after its expiry, return 400 and leave the users as they are.
C19_ResetNeedsLiveToken ==
  [][ResetStep =>
        /\ userResp'.code \in {200, 400}
        /\ userResp'.code = 400 => users' = users
        /\ LiveFor(userResp'.token) = {} => userResp'.code = 400
        /\ userResp'.token \in spent => userResp'.code = 400
        /\ userResp'.code = 200 =>
             \E u \in LiveFor(userResp'.token) :
               \E v \in users' :
                 /\ users' = (users \ {u}) \cup {v}
                 /\ v.id = u.id
                 /\ v.resetPasswordToken = Empty
                 /\ v.resetPasswordExpiresAt = NoDate
                 /\ v = [u EXCEPT !.password = v.password,
                                  !.resetPasswordToken = Empty,
                                  !.resetPasswordExpiresAt = NoDate]]_vars

\* a token that has reset a password has been presented again and refused
C19_SecondResetRefused ==
  /\ userResp.op = "reset"
  /\ userResp.code = 400
  /\ userResp.token \in spent

----------------------------------------------------------------------------
(* C20 *)

UniqueContacts(us) ==
  \A u \in us, v \in us :
    u.id # v.id => u.email # v.email /\ (u.phone # Empty => u.phone # v.phone)

\* C20: after any sequence of register, admin create, admin full update,
\* role/branch patch and delete, no two users share an email and no two
\* users share a phone that is present; an operation answered 409 leaves
\* the set of users unchanged.
C20_UniqueEmailAndPhone ==
  [][/\ UniqueContacts(users')
     /\ userResp'.code = 409 => users' = users]_vars

\* a full update to the email of another user has been answered 409
C20_DuplicateUpdateRefused ==
  /\ userResp.op = "update"
  /\ userResp.code = 409
  /\ Cardinality(users) = 2
  /\ UniqueContacts(users)

----------------------------------------------------------------------------
(* Remarks *)

\* the documents of a collection other than those of one (kind, refId) pair
OtherRemarks(docs, k, id) == {d \in docs : ~(d.kind = k /\ d.refId = id)}

OnePerPair(docs) ==
  \A d, e \in docs : d.kind = e.kind /\ d.refId = e.refId => d = e

\* C21: after every remark upsert the collection holds at most one document
\* per (kind, refId) pair; an accepted upsert leaves, for its pair (the kind
\* lower-cased, the refId trimmed), a document with the level (lower-cased)
\* and the text (trimmed, cut to 240 characters) it sent, and leaves the
\* documents of every other pair as they were; a refused upsert changes nothing
C21_OneRemarkPerPair ==
  [][LET b == remarkResp'.body
         k == toLowerCase(b.kind)
         id == trim(b.refId)
     IN /\ OnePerPair(remarks')
        /\ remarkResp'.code = 200 =>
             /\ \E d \in remarks' :
                  /\ d.kind = k
                  /\ d.refId = id
                  /\ d.level = toLowerCase(b.level)
                  /\ d.text = slice(trim(b.text), TEXT_LIMIT)
             /\ OtherRemarks(remarks', k, id) = OtherRemarks(remarks, k, id)
        /\ remarkResp'.code # 200 => remarks' = remarks]_vars

\* a booking remark sent as "Booking" for a padded refId, with a text longer
\* than the limit, stored next to the remarks of two other pairs
C21_LatestUpsertStored ==
  /\ remarkResp.code = 200
  /\ remarkResp.body.kind = KindBookingCap
  /\ remarkResp.body.refId = Ref1Sp
  /\ remarkResp.body.text = TextLong
  /\ remarkResp.data.kind = KindBooking
  /\ remarkResp.data.refId = Ref1
  /\ Len(remarkResp.data.text) = TEXT_LIMIT
  /\ remarkResp.data \in remarks
  /\ Cardinality(remarks) = 3
  /\ \E d \in remarks : d.kind = KindBooking /\ d.refId = Ref2
  /\ \E d \in remarks : d.kind = KindQuotation /\ d.refId = Ref1

----------------------------------------------------------------------------
(* Announcements *)

\* the public list was answered and is the last response
PublicAnswered == annResp.op = "public"

\* the announcement is in the list last returned
Returned(d) == \E j \in 1..Len(annResp.data) : annResp.data[j].id = d.id

\* the announcement was active and not expired when the list was made
VisibleThen(d) ==
  /\ d.active = TRUE
  /\ \/ d.expiresAt = ExpAbsent
     \/ d.expiresAt = ExpNull
     \/ d.expiresAt > annResp.at

\* C22: the public list holds only announcements that are active and whose
\* expiresAt is absent, null or strictly after the time of the request, and
\* it leaves such an announcement out only when it is full (as many items
\* as the limit) of newer ones
C22_PublicListShowsActiveUnexpired ==
  PublicAnswered =>
    \A i \in 1..Len(announcements) :
      LET d == announcements[i]
      IN /\ Returned(d) => VisibleThen(d)
         /\ VisibleThen(d) /\ ~Returned(d) =>
              /\ Len(annResp.data) = annResp.limit
              /\ \A j \in 1..Len(annResp.data) :
                   \E k \in (i + 1)..Len(announcements) :
                     announcements[k].id = annResp.data[j].id

\* a list with the announcement that has no expiresAt and without the active
\* one that expires at the very time of the request
C22_ExpiringNowLeftOut ==
  /\ PublicAnswered
  /\ Len(announcements) = 2
  /\ announcements[1].active = TRUE
  /\ announcements[1].expiresAt = ExpAbsent
  /\ announcements[2].active = TRUE
  /\ announcements[2].expiresAt = annResp.at
  /\ Len(annResp.data) = 1
  /\ annResp.data[1].id = announcements[1].id
  /\ annResp.limit = DEFAULT_LIMIT


\* how many times a value occurs in an array
Occurrences(arr, v) == Cardinality({i \in 1..Len(arr) : arr[i] = v})

\* an array without the occurrences of a value
Without(arr, v) == SelectSeq(arr, LAMBDA x : x # v)

\* C23: after an accepted ack the announcement's acknowledgedBy holds the
\* caller exactly once, and is otherwise what it was; the other
\* announcements are what they were
C23_AckAddsCallerOnce ==
  [][annResp'.op = "ack" /\ annResp'.code = 200 =>
       /\ Len(announcements') = Len(announcements)
       /\ \A i \in 1..Len(announcements) :
            IF announcements[i].id = annResp'.data[1]
              THEN /\ Occurrences(announcements'[i].acknowledgedBy, annResp'.data[2]) = 1
                   /\ Without(announcements'[i].acknowledgedBy, annResp'.data[2])
                        = Without(announcements[i].acknowledgedBy, annResp'.data[2])
              ELSE announcements'[i] = announcements[i]]_vars

\* an ack accepted from a user that acknowledgedBy holds twice
C23_AckOnDuplicatedEntry ==
  /\ annResp.op = "ack"
  /\ annResp.code = 200
  /\ annResp.data[2] = IdU1
  /\ \E i \in 1..Len(announcements) :
       /\ announcements[i].id = annResp.data[1]
       /\ Occurrences(announcements[i].acknowledgedBy, IdU1) = 2

\* C24: no step removes a user from an announcement's acknowledgedBy
C24_AcknowledgedByAppendOnly ==
  [][\A i \in 1..Len(announcements) :
       \A j \in 1..Len(announcements[i].acknowledgedBy) :
         \E k \in 1..Len(announcements'[i].acknowledgedBy) :
           announcements'[i].acknowledgedBy[k] = announcements[i].acknowledgedBy[j]]_vars

----------------------------------------------------------------------------
(* The stock proxy *)

GasAnswered == gasCall.stage = "answered"

\* the number of POSTs sent to the external app for the request
Posts == Cardinality({i \in 1..Len(gasCall.calls) : gasCall.calls[i].method = "POST"})

FirstAnswer == gasCall.answers[1]

GasChassis == upper(Or(gasCall.payload.data.chassisNo, gasCall.payload.data.Chassis_No))

AttemptedId == trim(Or(gasCall.payload.movementId, gasCall.payload.id))

\* the request is an update with a chassis number and the first answer
\* reports, with ok false, that the movement was not found
StaleReported ==
  /\ toLowerCase(Or(gasCall.payload.action, ActCreate)) = ActUpdate
  /\ FirstAnswer.present
  /\ FirstAnswer.ok = "false"
  /\ notFound(FirstAnswer.message)
  /\ GasChassis # Empty

\* the update was not sent again
NotResent == GasAnswered /\ ~FirstAnswer.threw /\ Posts = 1

\* C25 as stated: whenever the update is not sent again, the first answer is
\* returned as it is and the POST was the only call to the external app
C25_NoFurtherCallWithoutRetry ==
  NotResent =>
    /\ gasCall.response = GasOk(FirstAnswer)
    /\ Len(gasCall.calls) = 1

\* C25: the request is POSTed first and re-POSTed at most once; it is
\* re-POSTed only when a stale id was reported and 'current', or 'list' asked
\* only after 'current' gave no id, gave an id other than the one attempted,
\* and then with that id; when it is not re-POSTed the first answer is
\* returned as it is, with no further call unless a stale id was reported,
\* and then with no call but the lookups 'current' and 'list'
C25_ResentOnceWithFoundId ==
  GasAnswered =>
    LET calls == gasCall.calls
        made == Len(calls)
        lookups == IF Posts = 2 THEN made - 2 ELSE made - 1
    IN /\ calls[1].method = "POST"
       /\ Posts <= 2
       /\ lookups \in 0..2
       /\ lookups >= 1 => calls[2] = GasCall("GET", ActCurrent, Empty)
       /\ lookups = 2 =>
            /\ calls[3] = GasCall("GET", ActList, Empty)
            /\ currentId(gasCall.answers[2], GasChassis) = Empty
       /\ lookups >= 1 => StaleReported
       /\ Posts = 2 =>
            /\ lookups >= 1
            /\ calls[made].method = "POST"
            /\ calls[made].movementId # Empty
            /\ calls[made].movementId # AttemptedId
            /\ calls[made].movementId =
                 IF lookups = 1 THEN currentId(gasCall.answers[2], GasChassis)
                 ELSE listId(gasCall.answers[3], GasChassis)
       /\ NotResent => gasCall.response = GasOk(FirstAnswer)

\* an update sent again with the id that 'list' gave after 'current' gave none
C25_ResentAfterList ==
  /\ GasAnswered
  /\ Posts = 2
  /\ Len(gasCall.calls) = 4
  /\ gasCall.calls[4].movementId = Mv2
  /\ AttemptedId = Mv1
  /\ gasCall.payload.action = ActUpdateCap
  /\ gasCall.response.status = 200
  /\ gasCall.response.data = gasCall.answers[4]

----------------------------------------------------------------------------
(* The cache of GET forwards *)

\* the key of the request last answered or forwarded
LastKey == cacheKey(cacheResp.webhookUrl, cacheResp.payload)

\* a GET forward of the key got a 2xx answer less than the TTL ago
ForwardedRecently(k) ==
  /\ k \in DOMAIN forwardedAt
  /\ cacheNow - forwardedAt[k] < CACHE_TTL_MS

\* C26: a GET forward with the webhook URL and the payload of a GET forward
\* that got a 2xx answer less than 8 seconds earlier does not go to the
\* external webhook
C26_RecentGetNotForwarded ==
  cacheResp.kind = "forwarding" /\ cacheResp.method = MethodGet =>
    ~ForwardedRecently(LastKey)

\* a GET on its way to the webhook although the same GET was answered 200,
\* with an empty body, in the same tick
C26_EmptyAnswerForwardedAgain ==
  /\ cacheResp.kind = "forwarding"
  /\ cacheResp.method = MethodGet
  /\ LastKey \in DOMAIN forwardedAt
  /\ forwardedAt[LastKey] = cacheNow
  /\ cacheHas(webhookCache, LastKey)
  /\ cacheEntryOf(webhookCache, LastKey).data = Empty
  /\ cacheEntryOf(webhookCache, LastKey).t = cacheNow

\* the entries of a cache, as a set
Entries(cache) == {cache[i] : i \in 1..Len(cache)}

\* the step is a cachePut: a GET forward got a 2xx answer
PutStep ==
  /\ cachePending' # cachePending
  /\ cacheResp'.kind = "forwarded"
  /\ cacheResp'.method = MethodGet

\* C27: the cache never holds more than 500 entries; a cachePut of a new key
\* into a cache of 500 entries deletes 50 entries, none of them younger than
\* one that stays, and the entry put stays
C27_CacheBounded ==
  [][/\ Len(webhookCache') <= CACHE_MAX
     /\ PutStep =>
          LET k == cacheKey(cacheResp'.webhookUrl, cacheResp'.payload)
              put == CacheEntry(k, cacheNow, cacheResp'.data)
              before == Entries(webhookCache) \cup {put}
              evicted == before \ Entries(webhookCache')
          IN /\ put \in Entries(webhookCache')
             /\ Entries(webhookCache') \subseteq before
             /\ IF ~cacheHas(webhookCache, k) /\ Len(webhookCache) = CACHE_MAX
                  THEN /\ Cardinality(evicted) = CACHE_EVICT
                       /\ \A e \in evicted : \A f \in Entries(webhookCache') : e.t <= f.t
                  ELSE /\ Cardinality(evicted) <= 1
                       /\ \A e \in evicted : e.k = k]_vars

\* the cache right after it overflowed: 451 entries, the one just put among
\* them, the oldest one left being the 51st put
C27_FiftyEvicted ==
  /\ cacheResp.kind = "forwarded"
  /\ Len(webhookCache) = CACHE_MAX + 1 - CACHE_EVICT
  /\ webhookCache[Len(webhookCache)].k = cacheKey(Url2, CACHE_MAX + 1)
  /\ webhookCache[1].k = cacheKey(Url2, CACHE_EVICT + 1)

----------------------------------------------------------------------------
(* The pending transfers of a branch *)

PendingAnswered == pendingResp.code # 0

\* the caller of the last listing is an admin, an owner or a backend user
PrivilegedCaller == pendingResp.caller # NoUser /\ IsPriv(pendingResp.caller)

\* the query of the last listing asks for all branches
AsksAll == toLowerCase(trim(pendingResp.branch)) = BranchAll

\* the one branch the last listing is about: the branch of the query, else
\* (no branch in the query, or all) the caller's own, none for a guest
ResolvedBranch ==
  IF trim(pendingResp.branch) # Empty /\ ~AsksAll THEN trim(pendingResp.branch)
  ELSE IF pendingResp.caller = NoUser THEN Empty
  ELSE getBranchNameForUser(pendingResp.caller)

\* the transfers that were pending and not deleted when the list was made
PendingThen ==
  SelectSeq(pendingResp.collection,
            LAMBDA m : m.action = "transfer" /\ m.transferStatus = "pending" /\ ~m.deleted)

\* C28: a privileged caller who asks for all gets the pending transfers of
\* all branches; every other caller gets 400 when no branch resolves, and
\* otherwise the non-deleted pending transfers whose targetBranchKey is the
\* key of the one resolved branch, and no other movement (all of them when
\* the query names no limit, the oldest ones up to the limit otherwise)
C28_PendingOfOneBranch ==
  PendingAnswered =>
    LET key == normalize(ResolvedBranch)
        expected == IF PrivilegedCaller /\ AsksAll THEN PendingThen
                    ELSE SelectSeq(PendingThen, LAMBDA m : m.targetBranchKey = key)
        data == pendingResp.data
    IN IF ~(PrivilegedCaller /\ AsksAll) /\ key = Empty
         THEN pendingResp.code = 400 /\ data = <<>>
         ELSE /\ pendingResp.code = 200
              /\ Len(data) <= Len(expected)
              /\ data = SubSeq(expected, 1, Len(data))
              /\ pendingResp.limitQuery = Empty => data = expected

\* a staff user of branch b, asking for all, is given the one transfer to b
\* of the two that are pending
C28_StaffAskingAllGetsOwn ==
  /\ pendingResp.code = 200
  /\ pendingResp.caller = "staffb"
  /\ pendingResp.branch = BranchAllCap
  /\ Len(PendingThen) = 2
  /\ Len(pendingResp.data) = 1
  /\ pendingResp.data[1].targetBranchKey = Brb

----------------------------------------------------------------------------
(* The next serial *)

CsvAnswered == csvCall.stage = "answered"

\* the rows of the text last read, and its serial column (0 for none)
CsvRows == parseCsv(csvCall.csv)

SerialColumn == IF CsvRows = <<>> THEN 0 ELSE findSerialIdx(CsvRows[1], csvCall.kind)

\* the strictly numeric serials of the column
NumericSerials ==
  {parseIntStrict(cell(CsvRows[i], SerialColumn)).n :
     i \in {j \in 2..Len(CsvRows) : ~parseIntStrict(cell(CsvRows[j], SerialColumn)).nan}}

Highest(S) == CHOOSE n \in S : \A m \in S : m <= n

\* C29: the next serial is "1" when there is no CSV URL, no serial column
\* or no strictly numeric serial, and otherwise one more than the highest
\* strictly numeric serial of the column
C29_OneMoreThanHighest ==
  CsvAnswered =>
    csvCall.nextSerial =
      IF ~csvCall.csvUrl \/ SerialColumn = 0 \/ NumericSerials = {} THEN <<"1">>
      ELSE numberToString(Highest(NumericSerials) + 1)

\* the serials 12 and then 5 under the header "job card no": the answer is 6
C29_LastRowDecides ==
  /\ CsvAnswered
  /\ csvCall.kind = KindJobcard
  /\ SerialColumn = 2
  /\ NumericSerials = {5, 12}
  /\ csvCall.nextSerial = <<"6">>

----------------------------------------------------------------------------
(* The serials reserved *)

Alphanumeric ==
  {"0", "1", "2", "3", "4", "5", "6", "7", "8", "9",
   "A", "B", "C", "D", "E", "F", "G", "H", "I", "J", "K", "L", "M", "N", "O", "P", "Q", "R",
   "S", "T", "U", "V", "W", "X", "Y", "Z",
   "a", "b", "c", "d", "e", "f", "g", "h", "i", "j", "k", "l", "m", "n", "o", "p", "q", "r",
   "s", "t", "u", "v", "w", "x", "y", "z"}

\* prefix-branch-XXXXXX, with 6 alphanumeric characters at the end
WellFormed(r) ==
  LET prefix == IF r.kind = KindJobcard THEN <<"J", "C", "-">> ELSE <<"Q", "-">>
      head == prefix \o r.bc \o <<"-">>
  IN /\ Len(r.serial) = Len(head) + 6
     /\ SubSeq(r.serial, 1, Len(head)) = head
     /\ \A i \in (Len(head) + 1)..Len(r.serial) : r.serial[i] \in Alphanumeric

\* C30: every serial reserved has the form JC-<branch code>-XXXXXX (Q- for a
\* quotation) with 6 alphanumeric characters, and two serials reserved for
\* the same kind and branch are different
C30_SerialsWellFormedAndDistinct ==
  /\ \A i \in 1..Len(reserved) : WellFormed(reserved[i])
  /\ \A i, j \in 1..Len(reserved) :
       i < j /\ reserved[i].kind = reserved[j].kind /\ reserved[i].bc = reserved[j].bc
         => reserved[i].serial # reserved[j].serial

\* one jobcard serial of branch HBL, reserved twice
C30_SameSerialTwice ==
  /\ Len(reserved) = 2
  /\ reserved[1] = reserved[2]
  /\ reserved[1].kind = KindJobcard
  /\ reserved[1].bc = CodeHBL
  /\ WellFormed(reserved[1])
  /\ reserveResp.code = 200
  /\ reserveResp.serial = reserved[1].serial

----------------------------------------------------------------------------
(* One response to every request *)

\* C31: every request eventually receives exactly one response, also when a
\* call throws inside the handler
C31_EveryRequestAnsweredOnce ==
  (reqCall.stage = "received") ~> (reqCall.stage = "returned" /\ reqCall.responses = 1)

\* POST /register whose User.findOne threw: the handler has returned and
\* nothing was sent
C31_RegisterLeftUnanswered ==
  /\ reqCall.stage = "returned"
  /\ reqCall.route = RouteRegister
  /\ reqCall.in.throws = ThrowsFindOne
  /\ reqCall.calls = 0
  /\ reqCall.responses = 0

----------------------------------------------------------------------------
(* A Stock write that fails *)

\* the ledger write of the request answered by r is in ledger mv2, made from mv
LedgerWritten(mv, mv2, r) ==
  LET at == FindAny(mv2, r.id)
      m == mv2[CHOOSE i \in at : TRUE]
  IN /\ at # {}
     /\ Len(mv2) = IF r.op = "create" THEN Len(mv) + 1 ELSE Len(mv)
     /\ CASE r.op = "create" -> FindAny(mv, r.id) = {}
          [] r.op = "admit" -> m.transferStatus = "admitted"
          [] r.op = "reject" -> m.transferStatus = "rejected"
          [] r.op = "delete" -> m.deleted
          [] r.op = "patch" ->
               \E patch \in Patches : \E i \in FindAny(mv, r.id) :
                 mv2 = [mv EXCEPT ![i] = applyPatch(mv[i], patch)]
          [] OTHER -> FALSE

\* C32: when the write of the Stock snapshot fails during create, admit,
\* reject, update or soft-delete, the request still answers 201/200 and the
\* ledger write stays
C32_SnapshotFailureNeverAnError ==
  [][snapshotFault' =>
       /\ resp'.code = (IF resp'.op = "create" THEN 201 ELSE 200)
       /\ LedgerWritten(movements, movements', resp')
       /\ stock' = stock]_vars

\* a transfer was admitted while the Stock write threw: 200, the ledger says
\* admitted, and the snapshot is still at the source branch
C32_AdmittedWithoutSnapshot ==
  /\ snapshotFault
  /\ resp.op = "admit" /\ resp.code = 200
  /\ \E i \in FindLive(movements, resp.id) :
       /\ movements[i].transferStatus = "admitted"
       /\ \E d \in StockOf(stock, movements[i].chassisNo) :
            d.sourceBranch = movements[i].sourceBranch
            /\ d.sourceBranch # trim(movements[i].targetBranch)

----------------------------------------------------------------------------
(* Branch keys *)

\* spacing and punctuation
Separators == {" ", "-"}

\* two names differ only in letter case, spacing or punctuation
SameName(s, t) ==
  LET ls == SelectSeq(s, LAMBDA c : c \notin Separators)
      lt == SelectSeq(t, LAMBDA c : c \notin Separators)
  IN /\ Len(ls) = Len(lt)
     /\ \A i \in 1..Len(ls) : Lower(ls[i]) = Lower(lt[i])

\* C33: the key of a key is the key; names that differ only in letter case,
\* spacing or punctuation have one key; the empty and the absent value have
\* the empty key (for normalize of the routes and normalizeKey of the models)
C33_KeyIdempotentAndTolerant ==
  normCall.stage = "computed" =>
    /\ normCall.againA = normCall.keyA
    /\ normCall.modelAgainA = normCall.modelKeyA
    /\ (normCall.a.defined /\ normCall.b.defined /\ SameName(normCall.a.s, normCall.b.s)
          => normCall.keyA = normCall.keyB /\ normCall.modelKeyA = normCall.modelKeyB)
    /\ (~normCall.a.defined \/ normCall.a.s = Empty
          => normCall.keyA = Empty /\ normCall.modelKeyA = Empty)

\* "A " and "-a" have the key "a"; so has the key itself
C33_SpacedAndCasedNamesMeet ==
  /\ normCall.stage = "computed"
  /\ normCall.a = Defined(<<"A", " ">>)
  /\ normCall.b = Defined(<<"-", "a">>)
  /\ normCall.keyA = <<"a">>
  /\ normCall.keyB = <<"a">>
  /\ normCall.againA = <<"a">>

----------------------------------------------------------------------------
(* Source and target of a stored transfer *)

\* the movement POST / has just stored
Stored(mv2, r) == mv2[CHOOSE i \in FindAny(mv2, r.id) : TRUE]

\* C34: no transfer stored by POST / has a source and a target that denote
\* the same branch, that is, that have the same branch key
C34_NoTransferWithinOneBranch ==
  [][resp'.op = "create" /\ resp'.code = 201 /\ Len(movements') = Len(movements) + 1
       /\ Stored(movements', resp').action = "transfer"
     => normalize(Stored(movements', resp').sourceBranch)
          # normalize(Stored(movements', resp').targetBranch)]_vars

\* a pending transfer from "B" to "b" is in the ledger
C34_TransferFromBToItself ==
  /\ resp.op = "create" /\ resp.code = 201
  /\ \E i \in FindLive(movements, resp.id) :
       /\ movements[i].action = "transfer"
       /\ movements[i].transferStatus = "pending"
       /\ movements[i].sourceBranch = BrB
       /\ movements[i].targetBranch = Brb
       /\ movements[i].sourceBranchKey = movements[i].targetBranchKey

----------------------------------------------------------------------------
(* The branch keys stored *)

\* C35: in every reachable state each stored movement has
\* sourceBranchKey = normalize(sourceBranch) and
\* targetBranchKey = normalize(targetBranch), and each Stock snapshot has
\* sourceBranchKey = normalize(sourceBranch)
C35_StoredKeysAreNormalizedNames ==
  /\ \A i \in 1..Len(movements) :
       /\ movements[i].sourceBranchKey = normalize(movements[i].sourceBranch)
       /\ movements[i].targetBranchKey = normalize(movements[i].targetBranch)
  /\ \A d \in stock : d.sourceBranchKey = normalize(d.sourceBranch)

\* a PATCH has set the source branch of a movement to the empty string and
\* the movement keeps the key of the branch it had
C35_KeyOutlivesItsBranch ==
  /\ resp.op = "patch" /\ resp.code = 200
  /\ \E i \in FindAny(movements, resp.id) :
       /\ movements[i].sourceBranch = Empty
       /\ movements[i].sourceBranchKey = <<"a">>

----------------------------------------------------------------------------
(* An admit and a reject of one transfer at the same time *)

\* the resolutions of transfer id that were answered with 200
ResolutionsOf(id) == {k \in 1..Len(resolutions) : resolutions[k].id = id}

\* the snapshot of a resolved transfer that is the latest movement of its
\* chassis is at the target branch if and only if the transfer is admitted
SnapshotAgrees(m) ==
  \A d \in StockOf(stock, m.chassisNo) :
    d.sourceBranch = IF m.transferStatus = "admitted" THEN m.targetBranch
                     ELSE m.sourceBranch

\* C36: of an admit and a reject (or two admits) of one pending transfer that
\* run at the same time at most one succeeds, and in the final state the
\* snapshot's sourceBranch agrees with the transfer's final status
C36_OneResolutionAndSnapshotAgrees ==
  /\ \A id \in Ids : Cardinality(ResolutionsOf(id)) <= 1
  /\ Quiescent =>
       \A i \in 1..Len(movements) :
         /\ movements[i].action = "transfer"
         /\ movements[i].transferStatus \in {"admitted", "rejected"}
         /\ LatestIdx(movements, movements[i].chassisNo) = i
         => SnapshotAgrees(movements[i])

\* both handlers answered 200 for one transfer, an admit and a reject; the
\* ledger says rejected and the snapshot is at the target branch
C36_RejectedButMoved ==
  /\ Quiescent
  /\ \E id \in Ids :
       /\ {resolutions[k].op : k \in ResolutionsOf(id)} = {"admit", "reject"}
       /\ \E i \in FindLive(movements, id) :
            /\ movements[i].transferStatus = "rejected"
            /\ \E d \in StockOf(stock, movements[i].chassisNo) :
                 /\ d.sourceBranch = movements[i].targetBranch
                 /\ d.sourceBranch # movements[i].sourceBranch

----------------------------------------------------------------------------
(* The serials seen and the forwards that failed *)

\* the forward of submission i has just failed: 502 or 500
ForwardFailed(i) ==
  /\ i \in DOMAIN submissions
  /\ submissions[i].outcome = "forwarding"
  /\ submissions'[i].outcome \in {"502", "500"}

\* the forward of submission i has just been answered with a 2xx status
ForwardSucceeded(i) ==
  /\ i \in DOMAIN submissions
  /\ submissions[i].outcome = "forwarding"
  /\ submissions'[i].outcome = "forwarded"

\* C37: a serial is recorded as seen only when the external webhook answered
\* 2xx; a forward that failed (502 or 500) leaves the seen-set unchanged, so
\* that a submission is suppressed only after a forward of its serial that
\* succeeded
C37_SeenOnlyAfterSuccess ==
  [][/\ (\E i \in 1..MaxSubmissions : ForwardFailed(i)) => recentSerials' = recentSerials
     /\ recentSerials' # recentSerials =>
          \E i \in 1..MaxSubmissions :
            /\ ForwardSucceeded(i)
            /\ submissions[i].serial \in DOMAIN recentSerials'
            /\ \A k \in DOMAIN recentSerials :
                 k # submissions[i].serial => recentSerials'[k] = recentSerials[k]
     /\ \A j \in DOMAIN submissions' :
          submissions'[j].outcome = "suppressed" =>
            \E i \in DOMAIN submissions' :
              /\ i # j
              /\ submissions'[i].serial = submissions'[j].serial
              /\ submissions'[i].outcome = "forwarded"]_vars

\* the forwards of two submissions of serial Q1 failed, one with 502 and one
\* with 500; nothing is seen and a third submission of Q1 is being forwarded
C37_ForwardedAgainAfterFailures ==
  /\ Len(submissions) = 3
  /\ \A i \in 1..3 : submissions[i].serial = "Q1"
  /\ submissions[1].outcome = "502"
  /\ submissions[2].outcome = "500"
  /\ submissions[3].outcome = "forwarding"
  /\ submissions[3].at > submissions[1].at
  /\ submissions[3].at > submissions[2].at
  /\ recentSerials = <<>>

----------------------------------------------------------------------------
(* The secrets a token may be signed with *)

\* the token of the request and the keys it is verified against
PresentedToken == extractToken(authCall.req)

AcceptedKeys == {DEFAULT_SECRET} \cup (IF authCall.secret # "" THEN {authCall.secret} ELSE {})

\* nothing but the signature stands between the token and next(): it has not
\* expired, the request has a body to carry the userId and, where the
\* middleware looks the user up, the user is stored and the token not revoked
OtherwiseAcceptable ==
  /\ ~PresentedToken.expired
  /\ authCall.req.hasBody
  /\ authCall.mw = "full" =>
       /\ PresentedToken.userId # NoId
       /\ findById(authCall.db, PresentedToken.userId).stored
       /\ ~revoked(PresentedToken, findById(authCall.db, PresentedToken.userId))

\* C38: a token signed with neither the configured secret nor the well-known
\* default is rejected with 401; a token signed with the default is accepted
\* when no secret is configured and also when a different one is
C38_OnlyConfiguredOrDefaultKey ==
  AuthAnswered /\ PresentedToken # NoToken =>
    /\ PresentedToken.sig \notin AcceptedKeys => AuthRejected
    /\ (PresentedToken.sig = DEFAULT_SECRET /\ OtherwiseAcceptable) => AuthAccepted

\* the server's secret is "prod" and a token signed with the default passed
C38_DefaultKeyPassesAfterRotation ==
  /\ AuthAccepted
  /\ authCall.secret = "prod"
  /\ PresentedToken.sig = DEFAULT_SECRET
  /\ authCall.userId = PresentedToken.userId

----------------------------------------------------------------------------
(* The current stock listed *)

\* the chassis whose latest movement that is not deleted places them in stock,
\* at the branch of the key when there is one
InStockAt(mv, branchKey) ==
  {mv[i].chassisNo : i \in {j \in 1..Len(mv) :
      /\ LatestIdx(mv, mv[j].chassisNo) = j
      /\ deriveCurrentBranch(mv[j]) # Empty
      /\ branchKey # Empty => normalize(deriveCurrentBranch(mv[j])) = branchKey}}

\* C39: for every ledger and snapshot and every branch filter, GET /current
\* (and /current/public) returns exactly the chassis whose latest non-deleted
\* movement places them in stock at that branch, and the snapshot and the
\* scan of the movements hold the same chassis
C39_CurrentStockIsTheLedgers ==
  [][currentResp' # currentResp =>
       /\ currentResp'.data = InStockAt(movements, currentResp'.branchKey)
       /\ currentResp'.snapshot = currentResp'.scan]_vars

\* the listing without a branch is served from the snapshot and holds chassis
\* Y, whose only movement is a pending transfer from no branch
C39_ListedFromNowhere ==
  /\ currentResp.code = 200
  /\ currentResp.served = "snapshot"
  /\ currentResp.branchKey = Empty
  /\ ChY \in currentResp.data
  /\ ChY \notin currentResp.scan
  /\ LatestIdx(movements, ChY) # 0
  /\ deriveCurrentBranch(movements[LatestIdx(movements, ChY)]) = Empty

\* the whole degrees a submitted value writes
Degrees(v) == Number(v).n

\* a body with flat coordinates and no location, the latitude within
\* [-90, 90] and the longitude within [-180, 180]
FlatInRange(body) ==
  LET lat == coalesce(body.lat, body.latitude)
      lng == coalesce(body.lng, body.longitude)
  IN /\ ~body.location.given
     /\ notNullish(lat) /\ notNullish(lng)
     /\ ~Number(lat).nan /\ ~Number(lng).nan
     /\ Degrees(lat) \in -90..90
     /\ Degrees(lng) \in -180..180

SubmittedLat == Degrees(coalesce(branchResp.body.lat, branchResp.body.latitude))
SubmittedLng == Degrees(coalesce(branchResp.body.lng, branchResp.body.longitude))

\* C40: a branch created from flat lat/lng (or latitude/longitude) fields
\* stores location.coordinates as [longitude, latitude], for every latitude in
\* [-90, 90] and every longitude in [-180, 180]
C40_FlatStoredLngLat ==
  (branchResp.code = 201 /\ FlatInRange(branchResp.body))
    => branchResp.data.coordinates = <<SubmittedLng, SubmittedLat>>

\* a branch at 13 N, 77 E was created from flat fields and is stored as
\* [13, 77], the latitude first
C40_StoredLatLng ==
  /\ branchResp.code = 201
  /\ FlatInRange(branchResp.body)
  /\ SubmittedLat = 13 /\ SubmittedLng = 77
  /\ branchResp.data.coordinates = <<13, 77>>
  /\ \E i \in 1..Len(branchDocs) : branchDocs[i] = branchResp.data

====
